---- MODULE Spec2Model ----
(***************************************************************************)
(* E87 / Jieli RCSP BLE upload protocol (web/src/lib/e87-protocol.ts):     *)
(* FE frame codec, notification queue and its waiters, the auth handshake  *)
(* and the windowed upload state machine writeFileE87.                     *)
(*                                                                         *)
(* Byte strings are sequences of naturals in 0..255.  One step of the      *)
(* upload process runs the code between two awaits; a notification event   *)
(* runs every listener registered for it in one step.                      *)
(***************************************************************************)
EXTENDS Integers, Sequences, FiniteSets, TLC

\* ------------------------------------------------------------------------
\* Bounds of the model (not program constants)
\* ------------------------------------------------------------------------
SmallLen == 3
LongLen == 10
MaxWindows == 2
MaxQueued == 1
MaxRejects == 1
MaxBusArrivals == 3
PreFill == 198
MaxWaits == 2
MaxLate == 1
MaxRawBody == 2
MaxSessionWrites == 3
MaxWriteArrivals == 3
MaxCallers == 2

\* ------------------------------------------------------------------------
\* Program constants
\* ------------------------------------------------------------------------
E87_DATA_CHUNK_SIZE == 490
QueueCap == 200
MaxChunkSize == 4096
MaxBodyLen == 65535
MAX_UPLOAD_BYTES == 2000000

\* ------------------------------------------------------------------------
\* Integer helpers (JavaScript number semantics)
\* ------------------------------------------------------------------------
Min(a, b) == IF a < b THEN a ELSE b
Max(a, b) == IF a > b THEN a ELSE b

RECURSIVE BitXor(_, _)
BitXor(a, b) ==
  IF a = 0 THEN b
  ELSE IF b = 0 THEN a
  ELSE (((a % 2) + (b % 2)) % 2) + (2 * BitXor(a \div 2, b \div 2))

RECURSIVE BitAnd(_, _)
BitAnd(a, b) ==
  IF a = 0 \/ b = 0 THEN 0
  ELSE ((a % 2) * (b % 2)) + (2 * BitAnd(a \div 2, b \div 2))

\* (b4 << 24) | (b5 << 16) | (b6 << 8) | b7 : JavaScript bitwise operators give
\* a signed 32-bit integer, so a top byte >= 0x80 makes the value negative
Int32BE(b4, b5, b6, b7) ==
  ((IF b4 >= 128 THEN b4 - 256 ELSE b4) * 16777216) + (b5 * 65536) + (b6 * 256) + b7

\* TypedArray.prototype.slice(start, end): negative indices count from the end
Slice(arr, start, end) ==
  LET len == Len(arr)
      rs  == IF start < 0 THEN Max(len + start, 0) ELSE Min(start, len)
      re  == IF end < 0 THEN Max(len + end, 0) ELSE Min(end, len)
      cnt == Max(re - rs, 0)
  IN  SubSeq(arr, rs + 1, rs + cnt)

\* body[i] ?? dflt  (0-based index into a byte string)
ByteOr(body, i, dflt) == IF i + 1 <= Len(body) THEN body[i + 1] ELSE dflt

\* ------------------------------------------------------------------------
\* crc16xmodem (utils.ts)
\* ------------------------------------------------------------------------
\* one iteration of the inner loop: crc = (crc & 0x8000) ? ((crc << 1) ^ 0x1021) : crc << 1,
\* kept to 16 bits
\* (the argument is bound to its value once, as the variable crc is in the code)
CrcRound(crc) ==
  CHOOSE r \in {IF BitAnd(c, 32768) # 0 THEN BitXor(c * 2, 4129) % 65536
                                         ELSE (c * 2) % 65536 : c \in {crc}} : TRUE

\* crc ^= byte << 8, then eight rounds
CrcByte(crc, byte) ==
  CrcRound(CrcRound(CrcRound(CrcRound(CrcRound(CrcRound(CrcRound(CrcRound(
    BitXor(crc, byte * 256)))))))))

\* the bytes lo..hi folded into crc from left to right; the range is split in
\* halves and the left half is computed to a value before the right one is entered
RECURSIVE CrcFrom(_, _, _, _)
CrcFrom(crc, data, lo, hi) ==
  IF lo > hi THEN crc
  ELSE IF lo = hi THEN CrcByte(crc, data[lo])
  ELSE LET mid == (lo + hi) \div 2
       IN  CHOOSE r \in {CrcFrom(left, data, mid + 1, hi) :
                           left \in {CrcFrom(crc, data, lo, mid)}} : TRUE

crc16xmodem(data) == CrcFrom(0, data, 1, Len(data))

\* ------------------------------------------------------------------------
\* FE frame codec
\* ------------------------------------------------------------------------
NullFrame == [valid |-> FALSE, flag |-> 0, cmd |-> 0, length |-> 0, body |-> <<>>]

parseE87FrameAnyLastByte(data) ==
  CHOOSE parsed \in
    {IF Len(d) < 8 THEN NullFrame
     ELSE IF d[1] # 254 \/ d[2] # 220 \/ d[3] # 186 THEN NullFrame
     ELSE CHOOSE frame \in
            {IF Len(body) # d[6] * 256 + d[7] THEN NullFrame
             ELSE [valid |-> TRUE, flag |-> d[4], cmd |-> d[5],
                   length |-> d[6] * 256 + d[7], body |-> body] :
               body \in {Slice(d, 7, Len(d) - 1)}} : TRUE :
       d \in {data}} : TRUE

parseE87Frame(data) ==
  CHOOSE parsed \in
    {IF Len(d) < 8 THEN NullFrame
     ELSE IF d[1] # 254 \/ d[2] # 220 \/ d[3] # 186 THEN NullFrame
     ELSE IF d[Len(d)] # 239 THEN NullFrame
     ELSE CHOOSE frame \in
            {IF Len(body) # d[6] * 256 + d[7] THEN NullFrame
             ELSE [valid |-> TRUE, flag |-> d[4], cmd |-> d[5],
                   length |-> d[6] * 256 + d[7], body |-> body] :
               body \in {Slice(d, 7, Len(d) - 1)}} : TRUE :
       d \in {data}} : TRUE

buildE87FrameLowByteFirst(flag, cmd, body) ==
  <<254, 220, 186, flag % 256, cmd % 256,
    Len(body) % 256, (Len(body) \div 256) % 256>> \o body \o <<239>>

buildE87Frame(flag, cmd, body) ==
  <<254, 220, 186, flag % 256, cmd % 256,
    (Len(body) \div 256) % 256, Len(body) % 256>> \o body \o <<239>>

\* ------------------------------------------------------------------------
\* State
\* ------------------------------------------------------------------------
VARIABLES
  conn,   \* E87Connection: isAuthenticated, notificationQueue
  up,     \* locals of one writeFileE87 call and its position (pc)
  sc,     \* locals of the running sendChunksAt call
  env,    \* the caller's cancel flag and what the device has sent so far
  obs,    \* what an observer of the endpoints and callbacks has seen
  bus     \* the waiters of the notification-bus scenario

vars == <<conn, up, sc, env, obs, bus>>

\* ------------------------------------------------------------------------
\* Upload inputs
\* ------------------------------------------------------------------------
PayloadLens == {0, SmallLen, LongLen}
UploadModes == {"image"}

\* the payload bytes: byte i (1-based) of a payload is a fixed function of i,
\* injective on any 256 consecutive positions
PayloadByte(i) == ((i * 37) + 11) % 256
Payload(n) == [i \in 1 .. n |-> PayloadByte(i)]
jpegBytes == Payload(up.payloadLen)

\* ------------------------------------------------------------------------
\* What the device may send
\* ------------------------------------------------------------------------
AuthResp == <<1>> \o [i \in 1 .. 16 |-> 160 + i]
AuthChallenge == <<0>> \o [i \in 1 .. 16 |-> (i * 11) % 256]
\* a second challenge, so that the response can be told from one to another
AuthChallengeB == <<0>> \o [i \in 1 .. 16 |-> (i * 7 + 3) % 256]
PassToken == <<2, 112, 97, 115, 115>>
\* a step-6 reply that is not the success token: [0x02, 'f','a','i','l']
FailToken == <<2, 102, 97, 105, 108>>
InfoNotif == <<158, 213, 1, 199, 1, 0, 1>>
ReadyNotif == <<158, 230, 0, 0>>

\* [ackSeq, status, winSize BE16, nextOffset BE32]
WindowAckBody(ackSeq, status, w, off4) ==
  <<ackSeq, status, (w \div 256) % 256, w % 256>> \o off4

\* <<status, winSize, the four offset bytes>> of the windows the device may ask
\* for as its k-th window: first the head of the file, the whole file, nothing
\* (winSize 0) or an offset with the top bit set; later the tail of the file
\* (with a non-zero status byte), the head again or the top-bit offset
WindowChoices(k) ==
  IF k = 1
  THEN { <<0, 2, <<0, 0, 0, 0>>>>,
         <<0, LongLen, <<0, 0, 0, 0>>>>,
         <<0, 0, <<0, 0, 0, 0>>>>,
         <<0, 1, <<255, 255, 255, 255>>>> }
  ELSE { <<1, 2, <<0, 0, 0, 2>>>>,
         <<0, 2, <<0, 0, 0, 0>>>>,
         <<0, 1, <<255, 255, 255, 255>>>> }

DevMsgs(class) ==
  CASE class = "authResp" -> {AuthResp}
    [] class = "authChal" -> {AuthChallenge, AuthChallengeB}
    [] class = "authPass" -> {PassToken, FailToken}
    [] class = "authAgain" -> {AuthResp}
    [] class = "ack06"    -> {buildE87Frame(0, 6, <<0>>)}
    [] class = "ack03"    -> {buildE87Frame(0, 3, <<0, 1>>)}
    [] class = "ack07"    -> {buildE87Frame(0, 7, <<0, 2>>)}
    [] class = "info"     -> {InfoNotif}
    [] class = "ready"    -> {ReadyNotif}
    [] class = "ack21"    -> {buildE87Frame(0, 33, <<0, 3>>)}
    [] class = "ack27"    -> {buildE87Frame(0, 39, <<0, 4, 0, 1>>)}
    [] class = "ack1b"    -> {buildE87Frame(0, 27, <<0, 5, 0, 1>>),
                              buildE87Frame(0, 27, <<0, 5, 0, 2>>),
                              buildE87Frame(0, 27, <<0, 5>>)}
    [] class = "win"      -> {buildE87Frame(128, 29, WindowAckBody(1, c[1], c[2], c[3])) :
                                c \in WindowChoices(env.devCount["win"] + 1)}
    [] class = "fc"       -> {buildE87Frame(192, 32, <<6>>)}
    [] class = "close"    -> {buildE87Frame(192, 28, <<7, 0>>),
                              buildE87Frame(192, 28, <<7, 3>>)}
    [] class = "noise"    -> {buildE87Frame(192, 14, <<9>>)}

DevClasses ==
  {"authResp", "authChal", "authPass", "authAgain", "ack06", "ack03", "ack07", "info", "ready",
   "ack21", "ack27", "ack1b", "win", "fc", "close", "noise"}

\* how many messages of a class the device sends in one run
DevBudget(class) ==
  CASE class = "win"   -> MaxWindows
    [] class = "noise" -> 1
    [] OTHER           -> 1

\* the request a class of message answers ("" : unsolicited); "authAgain" is the
\* device response of step 2 sent a second time, late in the handshake
DevAnswers(class) ==
  CASE class = "authResp" -> "auth0"
    [] class = "authChal" -> "authPass"
    [] class = "authPass" -> "authEnc"
    [] class = "authAgain" -> "authEnc"
    [] class = "ack06"    -> "06"
    [] class = "ack03"    -> "03"
    [] class = "ack07"    -> "07"
    [] class = "info"     -> "info"
    [] class = "ready"    -> "prepare"
    [] class = "ack21"    -> "21"
    [] class = "ack27"    -> "27"
    [] class = "noise"    -> ""
    [] OTHER              -> "1b"

\* ------------------------------------------------------------------------
\* Observation of the endpoints
\* ------------------------------------------------------------------------
NoWrite == [bytes |-> <<>>, by |-> "none"]

DataWrite(bytes, by) == [bytes |-> bytes, by |-> by]

\* an FE frame f of the session that carries the session sequence byte in body[0]
SeqFrame(by, f) ==
  /\ by = "session"
  /\ f.valid
  /\ \/ f.flag = 192 /\ f.cmd \in {3, 7, 33, 39, 27}
     \/ f.flag = 128 /\ f.cmd = 1

CarriesSessionSeq(w) == \E f \in {parseE87Frame(w.bytes)} : SeqFrame(w.by, f)

\* a 0x01 data frame f of the session
DataFrame(by, f) == by = "session" /\ f.valid /\ f.flag = 128 /\ f.cmd = 1

IsDataFrame(w) == \E f \in {parseE87Frame(w.bytes)} : DataFrame(w.by, f)

\* the place of an FE command in the order of an upload: the six requests, the
\* data frames, the two replies
PhaseRank(cmd) ==
  CASE cmd = 6 -> 1 [] cmd = 3 -> 2 [] cmd = 7 -> 3 [] cmd = 33 -> 4 [] cmd = 39 -> 5
    [] cmd = 27 -> 6 [] cmd = 1 -> 7 [] cmd = 32 -> 8 [] cmd = 28 -> 9 [] OTHER -> 0

\* what the observer notes of a write w whose bytes decode to f (an undecodable
\* write decodes to NullFrame)
RecordFrame(o, w, f) ==
  [o EXCEPT !.wire = w,
            !.rank = IF w.by = "session" /\ f.valid THEN Max(@, PhaseRank(f.cmd)) ELSE @,
            !.lastSeq = IF SeqFrame(w.by, f) THEN f.body[1] ELSE @,
            !.prevSeq = IF SeqFrame(w.by, f) THEN o.lastSeq ELSE @,
            !.dataFrames = IF DataFrame(w.by, f) THEN @ + 1 ELSE @,
            !.winFrames = IF DataFrame(w.by, f) THEN @ + 1 ELSE @,
            !.chunkBytes = IF DataFrame(w.by, f) THEN @ + (Len(f.body) - 5) ELSE @,
            !.carried = IF DataFrame(w.by, f) THEN @ + (Len(f.body) - 5) ELSE @,
            !.pathReplies = IF f.valid /\ f.flag = 0 /\ f.cmd = 32 THEN @ + 1 ELSE @,
            !.closeReplies = IF f.valid /\ f.flag = 0 /\ f.cmd = 28 THEN @ + 1 ELSE @]

\* a write call on the data endpoint (AE01); ok tells whether the call resolved
RecordWrite(o, w, ok) ==
  CHOOSE r \in {CHOOSE r2 \in {RecordFrame(o, v, f) : f \in {parseE87Frame(v.bytes)}} : TRUE :
                  v \in {w}} : TRUE

\* a write call on the control endpoint (FD02)
RecordCtrl(o, bytes) == [o EXCEPT !.ctl = bytes]

\* The device answers the requests it has received since the last FE request:
\* an FE request (kind "fe") closes the earlier ones, a 9E request adds to them,
\* and the wait for an answer closes its request when it returns.
Requested(e, tag, kind) ==
  IF kind = "fe"
  THEN [e EXCEPT !.reqs = {tag}, !.devCount = [c \in DOMAIN @ |-> 0]]
  ELSE [e EXCEPT !.reqs = @ \cup {tag}]

Closed(e, tags) == [e EXCEPT !.reqs = @ \ tags]

\* a write on the data endpoint may reject while the run has rejections left
WriteOutcomes == IF env.rejects < MaxRejects THEN BOOLEAN ELSE {TRUE}

Rejected(e, ok) == IF ok THEN e ELSE [e EXCEPT !.rejects = @ + 1]

\* ------------------------------------------------------------------------
\* Notification queue helpers
\* ------------------------------------------------------------------------
\* a splice that also drops the entries ahead of the match
SpliceThrough(q, i) == SubSeq(q, i + 1, Len(q))

\* queue.splice(i, 1)
Splice(q, i) == SubSeq(q, 1, i - 1) \o SubSeq(q, i + 1, Len(q))

\* ------------------------------------------------------------------------
\* connectE87: the notification callback
\* ------------------------------------------------------------------------
\* an auto-ack with the two body bytes swapped
autoAckSwapped(frame) ==
  IF BitAnd(frame.flag, 192) # 192 THEN <<>>
  ELSE IF frame.cmd = 32 \/ frame.cmd = 28 \/ frame.cmd = 29 THEN <<>>
  ELSE <<buildE87Frame(0, frame.cmd, <<ByteOr(frame.body, 0, 0), 0>>)>>

\* the frames autoAckDeviceCommand writes for one inbound frame
autoAckDeviceCommand(frame) ==
  IF BitAnd(frame.flag, 192) # 192 THEN <<>>
  ELSE IF frame.cmd = 32 \/ frame.cmd = 28 \/ frame.cmd = 29 THEN <<>>
  ELSE <<buildE87Frame(0, frame.cmd, <<0, ByteOr(frame.body, 0, 0)>>)>>

\* a callback that drops the newest entry when the queue is full
onNotificationDropNewest(queue, raw) ==
  LET frame == parseE87Frame(raw)
  IN  IF /\ frame.valid
         /\ BitAnd(frame.flag, 192) = 192
         /\ frame.cmd # 32 /\ frame.cmd # 28 /\ frame.cmd # 29
      THEN queue
      ELSE IF Len(queue) >= QueueCap THEN queue ELSE Append(queue, raw)

\* the queue after onNotification has handled one inbound payload
onNotification(queue, raw) ==
  LET frame == parseE87Frame(raw)
  IN  IF /\ frame.valid
         /\ BitAnd(frame.flag, 192) = 192
         /\ frame.cmd # 32 /\ frame.cmd # 28 /\ frame.cmd # 29
      THEN queue
      ELSE LET pushed == Append(queue, raw)
           IN  IF Len(pushed) > QueueCap THEN Tail(pushed) ELSE pushed

\* a callback that also answers the opcodes the upload handles itself
onNotificationWritesAnyCmd(raw) ==
  LET frame == parseE87Frame(raw)
  IN  IF frame.valid /\ BitAnd(frame.flag, 192) = 192
      THEN <<buildE87Frame(0, frame.cmd, <<0, ByteOr(frame.body, 0, 0)>>)>>
      ELSE <<>>

\* the frames onNotification writes (through autoAckDeviceCommand)
onNotificationWrites(raw) ==
  LET frame == parseE87Frame(raw)
  IN  IF frame.valid THEN autoAckDeviceCommand(frame) ELSE <<>>

\* ------------------------------------------------------------------------
\* buildFilePathResponse
\* ------------------------------------------------------------------------
\* the instants new Date() returns: one whose time-set frame sums to the byte the
\* code writes as its checksum, one whose frame does not
Clock ==
  {[year |-> 2024, month |-> 6, day |-> 2, hours |-> 12, minutes |-> 34, seconds |-> 56],
   [year |-> 2024, month |-> 12, day |-> 31, hours |-> 23, minutes |-> 3, seconds |-> 0]}

Pad2(n) == <<48 + (n \div 10), 48 + (n % 10)>>

DateStr(now) ==
  <<48 + (now.year \div 1000), 48 + ((now.year \div 100) % 10),
    48 + ((now.year \div 10) % 10), 48 + (now.year % 10)>>
  \o Pad2(now.month) \o Pad2(now.day) \o Pad2(now.hours) \o Pad2(now.minutes)
  \o Pad2(now.seconds)

RECURSIVE Utf16LE(_)
Utf16LE(codes) ==
  IF codes = <<>> THEN <<>>
  ELSE <<Head(codes) % 256, (Head(codes) \div 256) % 256>> \o Utf16LE(Tail(codes))

buildFilePathResponse(deviceSeq, uploadMode, now) ==
  LET ext == IF uploadMode = "image" THEN <<46, 106, 112, 103>> ELSE <<46, 97, 118, 105>>
      devicePath == <<21852>> \o DateStr(now) \o ext
  IN  <<0, deviceSeq % 256>> \o Utf16LE(devicePath) \o <<0, 0>>

\* ------------------------------------------------------------------------
\* writeFileE87: the cmd-0x20 auto-responder (a second listener on the
\* notify characteristics while the call runs)
\* ------------------------------------------------------------------------
autoResponderFires(u, raw) ==
  LET frame == parseE87Frame(raw)
  IN  /\ u.listener
      /\ u.fileCompleteAutoRespond /\ ~u.fileCompleteHandled
      /\ frame.valid /\ frame.cmd = 32 /\ frame.flag = 192

\* one 'characteristicvaluechanged' event: onNotification, then autoResponder
Deliver(raw) ==
  \E now \in Clock :
    LET acks  == onNotificationWrites(raw)
        fires == autoResponderFires(up, raw)
        o1 == IF acks # <<>>
              THEN RecordWrite(obs, DataWrite(acks[1], "autoAck"), FALSE) ELSE obs
        o2 == IF fires
              THEN RecordWrite(o1, DataWrite(
                     buildE87Frame(0, 32, buildFilePathResponse(
                       ByteOr(parseE87Frame(raw).body, 0, 0), up.uploadMode, now)),
                     "autoResponder"), FALSE)
              ELSE o1
    IN  /\ conn' = [conn EXCEPT !.notificationQueue = onNotification(@, raw)]
        /\ up' = IF fires THEN [up EXCEPT !.fileCompleteHandled = TRUE] ELSE up
        /\ obs' = o2

IsWindowAck(f) == f.flag = 128 /\ f.cmd = 29

\* the predicates given to waitForRawNotification, by the position of the wait
RawPred(at, raw) ==
  CASE at = "auth_wait1" -> Len(raw) = 17 /\ raw[1] = 1
    [] at = "auth_wait2" -> Len(raw) = 17 /\ raw[1] = 0
    [] at = "auth_wait3" -> /\ Len(raw) >= 5
                            /\ raw[1] = 2 /\ raw[2] = 112 /\ raw[3] = 97
                            /\ raw[4] = 115 /\ raw[5] = 115
    [] at = "p5_waitC7"  -> Len(raw) >= 5 /\ raw[1] = 158 /\ (raw[4] = 199 \/ raw[3] = 199)
    [] at = "p5_waitE6"  -> Len(raw) >= 4 /\ raw[1] = 158 /\ raw[2] = 230
    [] OTHER -> FALSE

\* the predicates given to waitForNotificationFrame, by the position of the wait
FramePred(at, f) ==
  CASE at = "p1_wait06"  -> f.cmd = 6
    [] at = "p3_wait03"  -> f.cmd = 3
    [] at = "p4_wait07"  -> f.cmd = 7
    [] at = "p6_wait21"  -> f.cmd = 33
    [] at = "p7_wait27"  -> f.cmd = 39
    [] at = "p8_wait1b"  -> f.cmd = 27
    [] at = "p9_waitFirstAck" -> IsWindowAck(f)
    [] at = "loop_wait"  -> IsWindowAck(f) \/ f.cmd = 32 \/ f.cmd = 28
    [] at = "fc_waitClose" -> f.cmd = 28
    [] OTHER -> FALSE

RawWaits == {"auth_wait1", "auth_wait2", "auth_wait3", "p5_waitC7", "p5_waitE6"}

\* whether the wait at a position accepts a queue entry: a raw wait applies its
\* predicate to the bytes, a frame wait skips what does not decode
WaitPred(at, raw) ==
  IF at \in RawWaits THEN RawPred(at, raw)
  ELSE \E f \in {parseE87Frame(raw)} : f.valid /\ FramePred(at, f)

\* the scan of a waiter: index of the oldest queue entry the wait at a position
\* accepts (entries that do not decode are skipped by the frame waits), 0 when
\* there is none
FirstMatch(q, at) ==
  CHOOSE first \in {(IF S = {} THEN 0 ELSE CHOOSE i \in S : \A j \in S : i <= j) :
                      S \in {{i \in 1 .. Len(q) : WaitPred(at, q[i])}}} : TRUE

\* the entry a wait at a position returns
Taken(at) ==
  CHOOSE raw \in {(IF i > 0 THEN conn.notificationQueue[i] ELSE <<>>) :
                    i \in {FirstMatch(conn.notificationQueue, at)}} : TRUE

\* the requests whose ACK the upload cannot go on without: 0x21, 0x27, 0x1B
CriticalCmds == {33, 39, 27}

\* the command of the FE frame a session-critical wait at a position returns
\* (none after a timeout, none for the other waits)
Dequeued(at) ==
  IF at \in {"p6_wait21", "p7_wait27", "p8_wait1b"}
  THEN {f.cmd : f \in {g \in {parseE87Frame(Taken(at))} : g.valid}} \cap CriticalCmds
  ELSE {}

\* the positions where writeFileE87 sits in a wait
WaitPcs ==
  {"auth_wait1", "auth_wait2", "auth_wait3", "p1_wait06", "p3_wait03", "p4_wait07",
   "p5_waitC7", "p5_waitE6", "p6_wait21", "p7_wait27", "p8_wait1b", "p9_waitFirstAck",
   "loop_wait", "fc_waitClose"}

\* entries of the queue that the wait at a position matches / does not match
Matching(q, at) == {i \in DOMAIN q : WaitPred(at, q[i])}
Unmatched(q, at) == {i \in DOMAIN q : ~WaitPred(at, q[i])}

\* Whether the queue has room for a message: the answer the host waits for is
\* delivered when no other answer to that wait is queued, and at most MaxQueued
\* entries that the current wait does not match sit in the queue.
HasRoom(raw) ==
  LET q == conn.notificationQueue
  IN  \/ onNotification(q, raw) = q
      \/ WaitPred(up.pc, raw) /\ Matching(q, up.pc) = {}
      \/ ~WaitPred(up.pc, raw) /\ Cardinality(Unmatched(q, up.pc)) < MaxQueued

\* When the device may send a message of a class: it sends while the host sits
\* in a wait and answers a request once while the request is open.
DevMaySend(class) ==
  /\ up.pc \in WaitPcs
  /\ DevAnswers(class) \in env.reqs \cup {""}
  /\ env.devCount[class] < DevBudget(class)

\* the device sends one message of a class it has reason to send
DeviceNotify ==
  \E class \in DevClasses :
    /\ DevMaySend(class)
    /\ \E raw \in DevMsgs(class) : HasRoom(raw) /\ Deliver(raw)
    /\ env' = IF class = "noise" THEN env ELSE [env EXCEPT !.devCount[class] = @ + 1]
    /\ UNCHANGED <<sc, bus>>

\* the device sends FILE_COMPLETE while the session is in no wait: the write of
\* the session's own path response has not resolved yet, or writeFileE87 has
\* returned or thrown; the listeners that are attached run
LateFileComplete ==
  /\ up.pc \in {"fc_sent", "done", "failed"}
  /\ up.caller = "writeFileE87"
  /\ env.late < MaxLate
  /\ \E raw \in DevMsgs("fc") : Deliver(raw)
  /\ env' = [env EXCEPT !.late = @ + 1]
  /\ UNCHANGED <<sc, bus>>

\* cancelWrite sets the flag. It is read at the top of the data loop and before
\* each chunk, so a flag set earlier in the call is read as one set there; a flag
\* set during the waits of the data loop is read only if the loop comes round
RequestCancel ==
  /\ up.pc \in {"loop_top", "chunk", "loop_wait", "fc_waitClose"}
  /\ ~env.cancelRequested
  /\ env' = [env EXCEPT !.cancelRequested = TRUE]
  /\ UNCHANGED <<conn, up, sc, obs, bus>>

\* ------------------------------------------------------------------------
\* Initial state: connectE87 has returned, no upload has started
\* ------------------------------------------------------------------------
NoWaiter == [state |-> "idle", at |-> "none", got |-> <<>>]

NoBus == [arrivals |-> 0, base |-> 0, lastRaw |-> <<>>, lastWrites |-> <<>>, waits |-> 0,
          waiter |-> [w \in 1 .. 2 |-> NoWaiter], step |-> "none", who |-> 0]

NoSc == [offset |-> 0, winSize |-> 0, slot |-> 0, bytesSent |-> 0, chunksInWindow |-> 0,
         off4 |-> <<0, 0, 0, 0>>]

Init ==
  /\ conn = [isAuthenticated |-> FALSE, notificationQueue |-> <<>>]
  /\ up = [pc |-> "idle", caller |-> "none", payloadLen |-> 0, uploadMode |-> "image", listener |-> FALSE,
           fileCompleteAutoRespond |-> FALSE, fileCompleteHandled |-> FALSE,
           seqCounter |-> 0, chunkSize |-> E87_DATA_CHUNK_SIZE, seq |-> 0,
           sentChunks |-> 0, totalBytesSent |-> 0,
           currentAck |-> NullFrame, frame |-> NullFrame,
           deviceResponse |-> <<>>, deviceChallenge |-> <<>>,
           pendingOk |-> TRUE, error |-> ""]
  /\ sc = NoSc
  /\ env = [cancelRequested |-> FALSE, rejects |-> 0, reqs |-> {}, late |-> 0,
            devCount |-> [c \in DevClasses |-> 0]]
  /\ obs = [wire |-> NoWrite, rank |-> 0, acks |-> {}, lastSeq |-> -1, prevSeq |-> -1, dataFrames |-> 0,
            winFrames |-> 0, chunkBytes |-> 0, carried |-> 0, ctl |-> <<>>,
            winAcks |-> 0, lastProgress |-> -1, windows |-> <<>>,
            closeStatus |-> -1, pathReplies |-> 0, closeReplies |-> 0]
  /\ bus = NoBus

\* ------------------------------------------------------------------------
\* writeFileE87
\* ------------------------------------------------------------------------
\* an exception that leaves the listener of the auto-responder attached
FailAttached(u, err) == [u EXCEPT !.pc = "failed", !.error = err,
                                   !.deviceResponse = <<>>, !.deviceChallenge = <<>>]

\* an exception leaves the try block: the finally clause removes the listener
Fail(u, err) == [u EXCEPT !.pc = "failed", !.error = err, !.listener = FALSE,
                           !.deviceResponse = <<>>, !.deviceChallenge = <<>>]

Goto(u, at) == [u EXCEPT !.pc = at]

\* await sendE87Frame / writeChunk on the data endpoint: the write resolves or rejects
SendStep(at, bytes, tag, okUp, rejUp) ==
  /\ up.pc = at
  /\ \E ok \in WriteOutcomes :
       /\ obs' = RecordWrite(obs, DataWrite(bytes, "session"), ok)
       /\ up' = IF ok THEN okUp ELSE rejUp
       /\ env' = IF ok THEN Requested(env, tag, "fe") ELSE Rejected(env, ok)
  /\ UNCHANGED <<conn, sc, bus>>

\* await writeChunkTo(controlCharacteristic, ...)
CtrlStep(at, bytes, tag, okUp, rejUp) ==
  /\ up.pc = at
  /\ \E ok \in BOOLEAN :
       /\ obs' = RecordCtrl(obs, bytes)
       /\ up' = IF ok THEN okUp ELSE rejUp
       /\ env' = IF ok THEN Requested(env, tag, "9e") ELSE env
  /\ UNCHANGED <<conn, sc, bus>>

\* await waitForRawNotification(queue, pred, timeout): the oldest matching entry is
\* spliced out and returned; the deadline passes only after a scan found none
WaitRawStep(at, matchedUp, timedOutUp, tags) ==
  /\ up.pc = at
  /\ \E q \in {conn.notificationQueue} :
     \E i \in {FirstMatch(q, at)} :
         IF i > 0
         THEN /\ conn' = [conn EXCEPT !.notificationQueue = Splice(q, i)]
              /\ up' = matchedUp
         ELSE /\ up' = timedOutUp
              /\ UNCHANGED conn
  /\ obs' = [obs EXCEPT !.acks = @ \cup Dequeued(at)]
  /\ env' = Closed(env, tags)
  /\ UNCHANGED <<sc, bus>>

\* a frame wait without a deadline: it returns only with a match
WaitFrameStepNoDeadline(at, matchedUp, timedOutUp, tags) ==
  /\ FirstMatch(conn.notificationQueue, at) > 0
  /\ WaitRawStep(at, matchedUp, timedOutUp, tags)

\* await waitForNotificationFrame(queue, pred, timeout)
WaitFrameStep(at, matchedUp, timedOutUp, tags) ==
  WaitRawStep(at, matchedUp, timedOutUp, tags)

\* the sizes getUploadBytes may resolve with: the payloads the upload is followed
\* with, and payloads beyond the limit
UploadLens == PayloadLens \cup {MAX_UPLOAD_BYTES + 1, 2 * MAX_UPLOAD_BYTES}

\* a size test that passes everything
SizeLimitExceededNever(n) == FALSE

\* payload.length > MAX_UPLOAD_BYTES
SizeLimitExceeded(n) == n > MAX_UPLOAD_BYTES

\* startUpload after getUploadBytes has resolved: the size test, and for a payload
\* that passes it the call of writeFileE87: locals, the auto-responder listener,
\* then ensureE87Auth.  A payload that fails it ends startUpload in its catch.
StartUpload ==
  /\ up.pc = "idle"
  /\ \E n \in UploadLens, mode \in UploadModes :
       up' = IF SizeLimitExceeded(n)
             THEN [up EXCEPT !.pc = "failed", !.caller = "startUpload",
                             !.payloadLen = n, !.uploadMode = mode,
                             !.error = "File too large"]
             ELSE [up EXCEPT !.pc = "auth", !.caller = "writeFileE87", !.uploadMode = mode,
                             !.payloadLen = n,
                             !.listener = TRUE, !.fileCompleteAutoRespond = FALSE,
                             !.fileCompleteHandled = FALSE, !.seqCounter = 0]
  /\ UNCHANGED <<conn, sc, env, obs, bus>>

\* another operation of the connection (getTargetFeatureMapE87, ...) starts with
\* ensureE87Auth
StartAuth ==
  /\ up.pc = "idle"
  /\ up' = [up EXCEPT !.pc = "auth", !.caller = "other"]
  /\ UNCHANGED <<conn, sc, env, obs, bus>>

\* ensureE87Auth has returned or thrown in that other operation
AuthReturn ==
  /\ up.caller = "other"
  /\ up.pc \in {"p1_send06", "failed"}
  /\ up' = [up EXCEPT !.pc = "idle", !.caller = "none", !.error = "",
                      !.deviceResponse = <<>>, !.deviceChallenge = <<>>]
  /\ env' = [env EXCEPT !.reqs = {}, !.rejects = 0, !.devCount = [c \in DOMAIN @ |-> 0]]
  /\ obs' = [obs EXCEPT !.wire = NoWrite]
  /\ UNCHANGED <<conn, sc, bus>>

\* disconnectE87 between two operations: the queue is emptied and the flag reset;
\* the listener of connectE87 is removed, so nothing arrives until connectE87 has
\* made the next connection, which starts as this one did
disconnectE87 ==
  /\ up.pc = "idle"
  /\ conn.isAuthenticated \/ conn.notificationQueue # <<>>
  /\ conn' = [conn EXCEPT !.notificationQueue = <<>>, !.isAuthenticated = FALSE]
  /\ UNCHANGED <<up, sc, env, obs, bus>>

\* ---- ensureE87Auth --------------------------------------------------------
RandomAuthData == <<0>> \o [i \in 1 .. 16 |-> (i * 13) % 256]

\* the Jieli E1 block cipher lives in jl-auth.ts
E1Encrypt(block) == [i \in 1 .. Len(block) |-> (((block[i] * 5) + (i * 17)) + 29) % 256]

getEncryptedAuthData(deviceChallenge) == <<1>> \o E1Encrypt(Slice(deviceChallenge, 1, 17))

\* an ensureE87Auth that runs the handshake again on an authenticated connection
AuthSkipRehandshake ==
  SendStep("auth", RandomAuthData, "auth0",
           Goto(up, "auth_wait1"), Fail(up, "write rejected"))

AuthSkip ==
  /\ up.pc = "auth"
  /\ conn.isAuthenticated
  /\ up' = Goto(up, "p1_send06")
  /\ UNCHANGED <<conn, sc, env, obs, bus>>

AuthSendRandom ==
  /\ ~conn.isAuthenticated
  /\ SendStep("auth", RandomAuthData, "auth0",
              Goto(up, "auth_wait1"), Fail(up, "write rejected"))

\* a wait for the device response that goes on after its timeout
AuthWaitResponseLax ==
  WaitRawStep("auth_wait1",
              [up EXCEPT !.pc = "auth_pass", !.deviceResponse = Taken("auth_wait1")],
              Goto(up, "auth_pass"), {"auth0"})

AuthWaitResponse ==
  WaitRawStep("auth_wait1",
              [up EXCEPT !.pc = "auth_pass", !.deviceResponse = Taken("auth_wait1")],
              Fail(up, "Timeout waiting for auth device response"), {"auth0"})

AuthSendPass ==
  SendStep("auth_pass", <<2, 112, 97, 115, 115>>, "authPass",
           Goto(up, "auth_wait2"), Fail(up, "write rejected"))

AuthWaitChallenge ==
  WaitRawStep("auth_wait2",
              [up EXCEPT !.pc = "auth_enc", !.deviceChallenge = Taken("auth_wait2")],
              Fail(up, "Timeout waiting for auth device challenge"), {"authPass"})

AuthSendEncrypted ==
  SendStep("auth_enc", getEncryptedAuthData(up.deviceChallenge), "authEnc",
           Goto(up, "auth_wait3"), Fail(up, "write rejected"))

\* a step 6 that goes on to phase 1 when no success token came
AuthWaitConfirmLax ==
  /\ up.pc = "auth_wait3"
  /\ LET q == conn.notificationQueue
         i == FirstMatch(q, "auth_wait3")
     IN  /\ conn' = IF i > 0
                    THEN [conn EXCEPT !.notificationQueue = Splice(q, i),
                                      !.isAuthenticated = TRUE]
                    ELSE conn
         /\ up' = [up EXCEPT !.pc = "p1_send06", !.deviceResponse = <<>>,
                             !.deviceChallenge = <<>>]
  /\ UNCHANGED <<sc, env, obs, bus>>

AuthWaitConfirm ==
  /\ up.pc = "auth_wait3"
  /\ LET q == conn.notificationQueue
         i == FirstMatch(q, "auth_wait3")
     IN  IF i > 0
         THEN /\ conn' = [conn EXCEPT !.notificationQueue = Splice(q, i),
                                      !.isAuthenticated = TRUE]
              /\ up' = [up EXCEPT !.pc = "p1_send06", !.deviceResponse = <<>>,
                                  !.deviceChallenge = <<>>]
         ELSE /\ up' = Fail(up, "Timeout waiting for auth pass confirmation")
              /\ UNCHANGED conn
  /\ UNCHANGED <<sc, env, obs, bus>>

\* ---- phases 1 to 5 --------------------------------------------------------
P1Send06 ==
  /\ up.caller = "writeFileE87"
  /\ SendStep("p1_send06", buildE87Frame(192, 6, <<2, 0, 1>>), "06",
              [up EXCEPT !.pc = "p1_ctl", !.seqCounter = 1], Fail(up, "write rejected"))

P1Ctl ==
  CtrlStep("p1_ctl", <<158, 189, 11, 96, 13, 0, 3>>, "aux",
           Goto(up, "p1_wait06"), Goto(up, "p1_wait06"))

P1Wait06 ==
  WaitFrameStep("p1_wait06",
                Goto(up, "p2_time"), Goto(up, "p2_time"), {"06"})

timePayload(now) ==
  <<158, 69, 8, 2, 7, 0, now.year % 256, (now.year \div 256) % 256,
    now.month, now.day, 0, now.hours, now.minutes>>

P2Time ==
  \E now \in Clock :
    CtrlStep("p2_time", timePayload(now), "time",
             Goto(up, "p2_settings"), Fail(up, "write rejected"))

P2Settings ==
  CtrlStep("p2_settings", <<158, 32, 8, 22, 1, 0, 1>>, "settings",
           Goto(up, "p2_heartbeat"), Fail(up, "write rejected"))

P2Heartbeat ==
  CtrlStep("p2_heartbeat", <<158, 181, 11, 41, 1, 0, 128>>, "heartbeat",
           Goto(up, "p3_send03"), Fail(up, "write rejected"))

P3Send03 ==
  SendStep("p3_send03", buildE87Frame(192, 3, <<up.seqCounter, 255, 255, 255, 255, 1>>), "03",
           [up EXCEPT !.pc = "p3_ctl1", !.seqCounter = @ + 1], Goto(up, "p4_send07"))

P3Ctl1 ==
  CtrlStep("p3_ctl1", <<158, 211, 11, 198, 1, 0, 1>>, "info",
           Goto(up, "p3_ctl2"), Goto(up, "p4_send07"))

P3Ctl2 ==
  CtrlStep("p3_ctl2", <<158, 48, 8, 32, 2, 0, 255, 7>>, "aux",
           Goto(up, "p3_wait03"), Goto(up, "p4_send07"))

P3Wait03 ==
  WaitFrameStep("p3_wait03",
                Goto(up, "p4_send07"), Goto(up, "p4_send07"), {"03"})

P4Send07 ==
  SendStep("p4_send07", buildE87Frame(192, 7, <<up.seqCounter, 255, 255, 255, 255, 255>>), "07",
           [up EXCEPT !.pc = "p4_ctl1", !.seqCounter = @ + 1], Goto(up, "p5_heartbeat"))

P4Ctl1 ==
  CtrlStep("p4_ctl1", <<158, 43, 8, 255, 2, 0, 34, 0>>, "aux",
           Goto(up, "p4_ctl2"), Goto(up, "p5_heartbeat"))

P4Ctl2 ==
  CtrlStep("p4_ctl2", <<158, 45, 8, 255, 2, 0, 36, 0>>, "aux",
           Goto(up, "p4_wait07"), Goto(up, "p5_heartbeat"))

\* a wait for the 0x07 ACK whose timeout fails the upload
P4Wait07Strict ==
  WaitFrameStep("p4_wait07",
                Goto(up, "p5_heartbeat"), Fail(up, "Timeout waiting for ack cmd 0x07"), {"07"})

P4Wait07 ==
  WaitFrameStep("p4_wait07",
                Goto(up, "p5_heartbeat"), Goto(up, "p5_heartbeat"), {"07"})

P5Heartbeat ==
  CtrlStep("p5_heartbeat", <<158, 181, 11, 41, 1, 0, 128>>, "heartbeat",
           Goto(up, "p5_info"), Fail(up, "write rejected"))

P5Info ==
  CtrlStep("p5_info", <<158, 211, 11, 198, 1, 0, 1>>, "info",
           Goto(up, "p5_waitC7"), Fail(up, "write rejected"))

P5WaitC7 ==
  WaitRawStep("p5_waitC7",
              Goto(up, "p5_prepare"), Goto(up, "p5_prepare"), {"info"})

P5Prepare ==
  CtrlStep("p5_prepare", <<158, 244, 11, 220, 1, 0, 12>>, "prepare",
           Goto(up, "p5_waitE6"), Fail(up, "write rejected"))

P5WaitE6 ==
  WaitRawStep("p5_waitE6",
              Goto(up, "p6_send21"), Goto(up, "p6_send21"), {"prepare"})

\* ---- phases 6 to 8 --------------------------------------------------------
P6Send21 ==
  SendStep("p6_send21", buildE87Frame(192, 33, <<up.seqCounter, 0>>), "21",
           [up EXCEPT !.pc = "p6_wait21", !.seqCounter = @ + 1], Fail(up, "write rejected"))

\* a wait for the 0x21 ACK whose timeout is swallowed
P6Wait21Lax ==
  WaitFrameStep("p6_wait21",
                Goto(up, "p7_send27"), Goto(up, "p7_send27"), {"21"})

P6Wait21 ==
  WaitFrameStep("p6_wait21",
                Goto(up, "p7_send27"), Fail(up, "Timeout waiting for ack cmd 0x21"), {"21"})

P7Send27 ==
  SendStep("p7_send27", buildE87Frame(192, 39, <<up.seqCounter, 0, 0, 0, 0, 2, 1>>), "27",
           [up EXCEPT !.pc = "p7_wait27", !.seqCounter = @ + 1], Fail(up, "write rejected"))

\* a wait for the 0x27 ACK whose timeout is swallowed
P7Wait27Lax ==
  WaitFrameStep("p7_wait27",
                Goto(up, "p8_send1b"), Goto(up, "p8_send1b"), {"27"})

P7Wait27 ==
  WaitFrameStep("p7_wait27",
                Goto(up, "p8_send1b"), Fail(up, "Timeout waiting for ack cmd 0x27"), {"27"})

\* randomTempName(): six hex digits and ".tmp"
TempNames == {<<48, 48, 55, 102, 97, 49, 46, 116, 109, 112>>}
RandBytes == {90}

metaBody(seqCounter, fileSize, fileCrc, r1, r2, nameBytes) ==
  <<seqCounter % 256,
    (fileSize \div 16777216) % 256, (fileSize \div 65536) % 256,
    (fileSize \div 256) % 256, fileSize % 256,
    (fileCrc \div 256) % 256, fileCrc % 256, r1, r2>> \o nameBytes \o <<0>>

\* metaBody[0] = seqCounter; seqCounter += 1 happen before the write
P8Send1b ==
  /\ up.pc = "p8_send1b"
  /\ \E name \in TempNames, r1 \in RandBytes, r2 \in RandBytes :
     \E fileCrc \in {crc16xmodem(jpegBytes)} :
       SendStep("p8_send1b",
                buildE87Frame(192, 27, metaBody(up.seqCounter, up.payloadLen,
                                                fileCrc, r1, r2, name)),
                "1b",
                [up EXCEPT !.pc = "p8_wait1b", !.seqCounter = @ + 1],
                Fail([up EXCEPT !.seqCounter = @ + 1], "write rejected"))

\* a chunk size without the upper limit
ChunkSizeFromAckNoCap(body) ==
  CHOOSE size \in
    {IF Len(b) >= 4
     THEN LET cs == (b[3] * 256) + b[4]
          IN  IF cs = 0 THEN E87_DATA_CHUNK_SIZE ELSE cs
     ELSE E87_DATA_CHUNK_SIZE : b \in {body}} : TRUE

\* chunk size taken from the metadata ACK
ChunkSizeFromAck(body) ==
  CHOOSE size \in
    {IF Len(b) >= 4
     THEN LET cs == (b[3] * 256) + b[4]
          IN  IF cs = 0 \/ cs > MaxChunkSize THEN E87_DATA_CHUNK_SIZE ELSE cs
     ELSE E87_DATA_CHUNK_SIZE : b \in {body}} : TRUE

\* the metadata ACK arrives: chunk size, data-phase counters, arm the auto-responder
P8Wait1b ==
  WaitFrameStep("p8_wait1b",
                [up EXCEPT !.pc = "p9_waitFirstAck",
                                      !.chunkSize = ChunkSizeFromAck(parseE87Frame(Taken("p8_wait1b")).body),
                                      !.seq = up.seqCounter, !.sentChunks = 0,
                                      !.fileCompleteAutoRespond = TRUE,
                                      !.fileCompleteHandled = FALSE,
                                      !.totalBytesSent = 0],
                Fail(up, "Timeout waiting for ack cmd 0x1b"), {})

\* ---- phase 9: data transfer ----------------------------------------------
\* the earlier behaviour: after the timeout the whole file is streamed
P9WaitFirstAckFallback ==
  /\ up.pc = "p9_waitFirstAck"
  /\ LET q == conn.notificationQueue
         i == FirstMatch(q, "p9_waitFirstAck")
     IN  IF i > 0
         THEN /\ conn' = [conn EXCEPT !.notificationQueue = Splice(q, i)]
              /\ up' = [up EXCEPT !.pc = "loop_top", !.currentAck = parseE87Frame(q[i])]
              /\ obs' = [obs EXCEPT !.winAcks = @ + 1]
              /\ UNCHANGED sc
         ELSE /\ up' = Goto(up, "chunk")
              /\ sc' = [offset |-> 0, winSize |-> up.payloadLen, slot |-> 0, bytesSent |-> 0,
                        chunksInWindow |-> 0, off4 |-> <<0, 0, 0, 0>>]
              /\ UNCHANGED <<conn, obs>>
  /\ UNCHANGED <<env, bus>>

\* the wait for the first window ACK: a timeout is fatal
P9WaitFirstAck ==
  /\ up.pc = "p9_waitFirstAck"
  /\ LET q == conn.notificationQueue
         i == FirstMatch(q, "p9_waitFirstAck")
     IN  IF i > 0
         THEN /\ conn' = [conn EXCEPT !.notificationQueue = Splice(q, i)]
              /\ up' = [up EXCEPT !.pc = "loop_top", !.currentAck = parseE87Frame(q[i])]
              /\ obs' = [obs EXCEPT !.winAcks = @ + 1]
         ELSE /\ up' = Fail(up, "Device did not send the initial window ACK within 10 s")
              /\ UNCHANGED <<conn, obs>>
  /\ UNCHANGED <<sc, env, bus>>

nextOffsetOf(body) == Int32BE(body[5], body[6], body[7], body[8])
winSizeOf(body) == (body[3] * 256) + body[4]

\* top of the while (!done) loop up to the first await
LoopTop ==
  /\ up.pc = "loop_top"
  /\ IF env.cancelRequested
     THEN /\ up' = Fail(up, "Write cancelled.")
          /\ UNCHANGED <<sc, obs>>
     ELSE IF up.currentAck.valid /\ up.currentAck.cmd = 29 /\ Len(up.currentAck.body) >= 8
     THEN /\ up' = Goto(up, "chunk")
          /\ sc' = [offset |-> nextOffsetOf(up.currentAck.body),
                    winSize |-> winSizeOf(up.currentAck.body),
                    slot |-> 0, bytesSent |-> 0, chunksInWindow |-> 0,
                    off4 |-> SubSeq(up.currentAck.body, 5, 8)]
          /\ obs' = [obs EXCEPT !.carried = 0, !.winFrames = 0]
     ELSE /\ up' = Goto(up, "loop_wait")
          /\ UNCHANGED <<sc, obs>>
  /\ UNCHANGED <<conn, env, bus>>

NextSeq(s) == (s + 1) % 256

\* a slot counter without the & 0x07
NextSlotUnmasked(s) == s + 1

NextSlot(s) == (s + 1) % 8

\* Math.min(winSize - bytesSent, jpegBytes.length - chunkOffset)
Remaining(winSize, bytesSent, len, chunkOffset) ==
  IF chunkOffset <= len - (winSize - bytesSent)
  THEN winSize - bytesSent
  ELSE len - chunkOffset

ChunkLen(chunkSize, remaining) == Min(chunkSize, remaining)

dataBody(seq, slot, payload) ==
  CHOOSE body \in
    {<<seq % 256, 29, slot % 256, (crc \div 256) % 256, crc % 256>> \o bytes :
       <<bytes, crc>> \in {<<p, crc16xmodem(p)>> : p \in {payload}}} : TRUE

\* sendChunksAt returns: the window is done
WindowDone ==
  /\ up' = Goto(up, "loop_wait")
  /\ obs' = [obs EXCEPT !.windows = Append(@, [off4 |-> sc.off4, w |-> sc.winSize])]
  /\ UNCHANGED <<conn, sc, env, bus>>

\* one iteration of the while loop of sendChunksAt
SendChunk ==
  /\ up.pc = "chunk"
  /\ sc.bytesSent < sc.winSize
  /\ ~env.cancelRequested
  /\ sc.offset + sc.bytesSent < up.payloadLen
  /\ \E chunkOffset \in {sc.offset + sc.bytesSent} :
     \E remaining \in {Remaining(sc.winSize, sc.bytesSent, up.payloadLen, chunkOffset)} :
     \E chunkLen \in {ChunkLen(up.chunkSize, remaining)} :
     \E payload \in {Slice(jpegBytes, chunkOffset, chunkOffset + chunkLen)} :
     \E frame \in {buildE87Frame(128, 1, dataBody(up.seq, sc.slot, payload))} :
         \E ok \in WriteOutcomes :
           /\ IF ok
              THEN /\ up' = [up EXCEPT !.sentChunks = @ + 1,
                                       !.totalBytesSent = @ + chunkLen,
                                       !.seq = NextSeq(@)]
                   /\ sc' = [sc EXCEPT !.chunksInWindow = @ + 1,
                                       !.slot = NextSlot(@),
                                       !.bytesSent = @ + chunkLen]
                   /\ obs' = [RecordWrite(obs, DataWrite(frame, "session"), ok)
                                EXCEPT !.lastProgress = up.totalBytesSent + chunkLen]
              ELSE /\ up' = Fail(up, "write rejected")
                   /\ obs' = RecordWrite(obs, DataWrite(frame, "session"), ok)
                   /\ UNCHANGED sc
           /\ env' = Rejected(env, ok)
  /\ UNCHANGED <<conn, bus>>

SendChunkCancelled ==
  /\ up.pc = "chunk"
  /\ sc.bytesSent < sc.winSize
  /\ env.cancelRequested
  /\ up' = Fail(up, "Write cancelled.")
  /\ UNCHANGED <<conn, sc, env, obs, bus>>

SendChunksReturn ==
  /\ up.pc = "chunk"
  /\ \/ sc.bytesSent >= sc.winSize
     \/ /\ sc.bytesSent < sc.winSize
        /\ ~env.cancelRequested
        /\ sc.offset + sc.bytesSent >= up.payloadLen
  /\ WindowDone

\* handleCompletion up to its write: the status byte is only logged
statusByteOf(body) == IF Len(body) >= 2 THEN body[2] ELSE 255

\* the wait at the bottom of the loop and the dispatch on the frame it returns
LoopWait ==
  /\ up.pc = "loop_wait"
  /\ \E q \in {conn.notificationQueue} :
     \E i \in {FirstMatch(q, "loop_wait")} :
     \E f \in {IF i = 0 THEN NullFrame ELSE parseE87Frame(q[i])} :
         IF i = 0
         THEN /\ up' = Fail(up, "Timeout waiting for window ack, FILE_COMPLETE, or session close")
              /\ UNCHANGED <<conn, obs>>
         ELSE /\ conn' = [conn EXCEPT !.notificationQueue = Splice(q, i)]
              /\ IF f.cmd = 32 /\ f.flag = 192
                 THEN /\ up' = [up EXCEPT !.frame = f,
                                          !.pc = IF up.fileCompleteHandled
                                                 THEN "fc_waitClose" ELSE "fc_send"]
                      /\ UNCHANGED obs
                 ELSE IF f.cmd = 28
                 THEN /\ up' = [up EXCEPT !.frame = f, !.pc = "close_send",
                                          !.fileCompleteAutoRespond = FALSE]
                      /\ obs' = [obs EXCEPT !.closeStatus = statusByteOf(f.body)]
                 ELSE /\ up' = [up EXCEPT !.currentAck = f, !.pc = "loop_top"]
                      /\ obs' = [obs EXCEPT !.winAcks = IF IsWindowAck(f) THEN @ + 1 ELSE @]
  /\ UNCHANGED <<sc, env, bus>>

\* the path response is written; fileCompleteHandled is set once the write resolved
FcSend ==
  /\ up.pc = "fc_send"
  /\ \E now \in Clock, ok \in WriteOutcomes :
       /\ obs' = RecordWrite(obs, DataWrite(
                   buildE87Frame(0, 32, buildFilePathResponse(
                     ByteOr(up.frame.body, 0, up.seq), up.uploadMode, now)), "session"), ok)
       /\ up' = [up EXCEPT !.pc = "fc_sent", !.pendingOk = ok]
       /\ env' = Rejected(env, ok)
  /\ UNCHANGED <<conn, sc, bus>>

FcSent ==
  /\ up.pc = "fc_sent"
  /\ up' = IF up.pendingOk
           THEN [up EXCEPT !.pc = "fc_waitClose", !.fileCompleteHandled = TRUE]
           ELSE Fail(up, "write rejected")
  /\ UNCHANGED <<conn, sc, env, obs, bus>>

\* a wait for SESSION_CLOSE whose deadline ends the upload as complete
FcWaitCloseOptional ==
  /\ up.pc = "fc_waitClose"
  /\ \E q \in {conn.notificationQueue} :
     \E i \in {FirstMatch(q, "fc_waitClose")} :
     \E f \in {IF i = 0 THEN NullFrame ELSE parseE87Frame(q[i])} :
         IF i = 0
         THEN /\ up' = [up EXCEPT !.pc = "done", !.listener = FALSE]
              /\ UNCHANGED <<conn, obs>>
         ELSE /\ conn' = [conn EXCEPT !.notificationQueue = Splice(q, i)]
              /\ up' = [up EXCEPT !.frame = f, !.pc = "close_send",
                                  !.fileCompleteAutoRespond = FALSE]
              /\ obs' = [obs EXCEPT !.closeStatus = statusByteOf(f.body)]
  /\ UNCHANGED <<sc, env, bus>>

\* the wait for SESSION_CLOSE after FILE_COMPLETE: a timeout is fatal
FcWaitClose ==
  /\ up.pc = "fc_waitClose"
  /\ \E q \in {conn.notificationQueue} :
     \E i \in {FirstMatch(q, "fc_waitClose")} :
     \E f \in {IF i = 0 THEN NullFrame ELSE parseE87Frame(q[i])} :
         IF i = 0
         THEN /\ up' = Fail(up, "Timeout waiting for session close (cmd 0x1c)")
              /\ UNCHANGED <<conn, obs>>
         ELSE /\ conn' = [conn EXCEPT !.notificationQueue = Splice(q, i)]
              /\ up' = [up EXCEPT !.frame = f, !.pc = "close_send",
                                  !.fileCompleteAutoRespond = FALSE]
              /\ obs' = [obs EXCEPT !.closeStatus = statusByteOf(f.body)]
  /\ UNCHANGED <<sc, env, bus>>

\* handleCompletion writes the 0x1C reply; writeFileE87 then returns
CloseSend ==
  SendStep("close_send",
           buildE87Frame(0, 28, <<0, ByteOr(up.frame.body, 0, up.seq)>>), "close",
           [up EXCEPT !.pc = "done", !.listener = FALSE], Fail(up, "write rejected"))

\* ------------------------------------------------------------------------
\* The upload specification
\* ------------------------------------------------------------------------
Next ==
  \/ StartUpload \/ StartAuth \/ AuthReturn \/ disconnectE87 \/ RequestCancel
  \/ DeviceNotify \/ LateFileComplete
  \/ AuthSkip \/ AuthSendRandom \/ AuthWaitResponse \/ AuthSendPass
  \/ AuthWaitChallenge \/ AuthSendEncrypted \/ AuthWaitConfirm
  \/ P1Send06 \/ P1Ctl \/ P1Wait06 \/ P2Time \/ P2Settings \/ P2Heartbeat
  \/ P3Send03 \/ P3Ctl1 \/ P3Ctl2 \/ P3Wait03
  \/ P4Send07 \/ P4Ctl1 \/ P4Ctl2 \/ P4Wait07
  \/ P5Heartbeat \/ P5Info \/ P5WaitC7 \/ P5Prepare \/ P5WaitE6
  \/ P6Send21 \/ P6Wait21 \/ P7Send27 \/ P7Wait27 \/ P8Send1b \/ P8Wait1b
  \/ P9WaitFirstAck \/ LoopTop \/ SendChunk \/ SendChunkCancelled \/ SendChunksReturn
  \/ LoopWait \/ FcSend \/ FcSent \/ FcWaitClose \/ CloseSend

Spec == Init /\ [][Next]_vars

\* the steps of the running operation itself: each is the continuation of an
\* await that has resolved, rejected or reached its deadline, and the event loop
\* runs it.  The caller, the device and the user are under no such obligation.
SessionStep ==
  \/ AuthSkip \/ AuthSendRandom \/ AuthWaitResponse \/ AuthSendPass
  \/ AuthWaitChallenge \/ AuthSendEncrypted \/ AuthWaitConfirm
  \/ P1Send06 \/ P1Ctl \/ P1Wait06 \/ P2Time \/ P2Settings \/ P2Heartbeat
  \/ P3Send03 \/ P3Ctl1 \/ P3Ctl2 \/ P3Wait03
  \/ P4Send07 \/ P4Ctl1 \/ P4Ctl2 \/ P4Wait07
  \/ P5Heartbeat \/ P5Info \/ P5WaitC7 \/ P5Prepare \/ P5WaitE6
  \/ P6Send21 \/ P6Wait21 \/ P7Send27 \/ P7Wait27 \/ P8Send1b \/ P8Wait1b
  \/ P9WaitFirstAck \/ LoopTop \/ SendChunk \/ SendChunkCancelled \/ SendChunksReturn
  \/ LoopWait \/ FcSend \/ FcSent \/ FcWaitClose \/ CloseSend

SpecLive == Spec /\ WF_vars(SessionStep)

\* ------------------------------------------------------------------------
\* The notification bus on its own: arrivals and concurrent waiters
\* ------------------------------------------------------------------------
BusKinds == {"cmd", "resp", "fc", "e6"}

\* the k-th notification of the connection, of a kind; k makes queued entries
\* distinct (a device command has no body when k is even)
BusMsg(kind, k) ==
  CASE kind = "cmd"  -> buildE87Frame(192, 14, IF k % 2 = 0 THEN <<>> ELSE <<k % 256>>)
    [] kind = "resp" -> buildE87Frame(0, 6, <<k % 256>>)
    [] kind = "fc"   -> buildE87Frame(192, 32, <<k % 256>>)
    [] kind = "e6"   -> <<158, 230, k % 256, 0>>

\* the queue of a connection that has received n notifications nobody waited for
Prefilled(n) ==
  [k \in 1 .. n |-> BusMsg(CASE k % 3 = 0 -> "resp" [] k % 3 = 1 -> "e6" [] OTHER -> "fc", k)]

\* the waits that concurrent callers run on the queue
BusWaits == {"p1_wait06", "p5_waitE6", "loop_wait"}

InitBus ==
  /\ \E n \in {0, PreFill} :
       /\ conn = [isAuthenticated |-> FALSE, notificationQueue |-> Prefilled(n)]
       /\ bus = [NoBus EXCEPT !.arrivals = n, !.base = n]
  /\ up = [pc |-> "idle", caller |-> "none", payloadLen |-> 0, uploadMode |-> "image",
           listener |-> FALSE,
           fileCompleteAutoRespond |-> FALSE, fileCompleteHandled |-> FALSE,
           seqCounter |-> 0, chunkSize |-> E87_DATA_CHUNK_SIZE, seq |-> 0,
           sentChunks |-> 0, totalBytesSent |-> 0,
           currentAck |-> NullFrame, frame |-> NullFrame,
           deviceResponse |-> <<>>, deviceChallenge |-> <<>>,
           pendingOk |-> TRUE, error |-> ""]
  /\ sc = NoSc
  /\ env = [cancelRequested |-> FALSE, rejects |-> 0, reqs |-> {}, late |-> 0,
            devCount |-> [c \in DevClasses |-> 0]]
  /\ obs = [wire |-> NoWrite, rank |-> 0, acks |-> {}, lastSeq |-> -1, prevSeq |-> -1, dataFrames |-> 0,
            winFrames |-> 0, chunkBytes |-> 0, carried |-> 0, ctl |-> <<>>,
            winAcks |-> 0, lastProgress |-> -1, windows |-> <<>>,
            closeStatus |-> -1, pathReplies |-> 0, closeReplies |-> 0]

\* a notification arrives: the 'characteristicvaluechanged' listeners run
BusArrive ==
  /\ bus.arrivals - bus.base < MaxBusArrivals
  /\ \E kind \in BusKinds :
       LET raw == BusMsg(kind, bus.arrivals + 1)
       IN  /\ Deliver(raw)
           /\ bus' = [bus EXCEPT !.arrivals = @ + 1, !.lastRaw = raw,
                                 !.lastWrites = onNotificationWrites(raw),
                                 !.step = "arrive", !.who = 0]
  /\ UNCHANGED <<sc, env>>

\* one pass of the for loop of a waiter over the queue
Scan(w, at, started) ==
  LET q == conn.notificationQueue
      i == FirstMatch(q, at)
  IN  IF i > 0
      THEN /\ conn' = [conn EXCEPT !.notificationQueue = Splice(q, i)]
           /\ bus' = [bus EXCEPT !.waiter[w] = [state |-> "got", at |-> at, got |-> q[i]],
                                 !.waits = @ + started, !.step = "take", !.who = w]
      ELSE /\ bus' = [bus EXCEPT !.waiter[w] = [state |-> "waiting", at |-> at, got |-> <<>>],
                                 !.waits = @ + started, !.step = "scan", !.who = w]
           /\ UNCHANGED conn

\* a caller starts a wait: the first pass runs before the first sleep
BusStartWait ==
  /\ bus.waits < MaxWaits
  /\ \E w \in 1 .. 2, at \in BusWaits :
       /\ bus.waiter[w].state = "idle"
       /\ w = 2 => bus.waiter[1].state # "idle"
       /\ Scan(w, at, 1)
  /\ UNCHANGED <<up, sc, env, obs>>

\* a waiter wakes from sleep(20) before its deadline and finds a match
BusRescan ==
  /\ \E w \in 1 .. 2 :
       /\ bus.waiter[w].state = "waiting"
       /\ Matching(conn.notificationQueue, bus.waiter[w].at) # {}
       /\ Scan(w, bus.waiter[w].at, 0)
  /\ UNCHANGED <<up, sc, env, obs>>

\* a waiter wakes from sleep(20) after its deadline: it throws without a pass
BusTimeout ==
  /\ \E w \in 1 .. 2 :
       /\ bus.waiter[w].state = "waiting"
       /\ bus' = [bus EXCEPT !.waiter[w].state = "timedOut", !.step = "timeout", !.who = w]
  /\ UNCHANGED <<conn, up, sc, env, obs>>

NextBus == BusArrive \/ BusStartWait \/ BusRescan \/ BusTimeout

SpecBus == InitBus /\ [][NextBus]_vars

\* ------------------------------------------------------------------------
\* Phase 8 on its own: the metadata ACK and the chunk size taken from it
\* ------------------------------------------------------------------------
\* bytes 2 and 3 of the ACK body: around 0, around 4096 = 16 * 256, and the top
AckBytes == {0, 1, 15, 16, 17, 255}

\* ACK bodies of every length from 0 to 5
AckBodies ==
  {SubSeq(<<0, 5, b2, b3, 9>>, 1, n) : n \in 0 .. 5, b2 \in AckBytes, b3 \in AckBytes}

\* writeFileE87 has written the metadata request and waits for its ACK; a frame
\* with the ACK's cmd is in the queue, its flag 0x00 (a response) or 0x80, its
\* status byte (body[0], when the body has one) 0 or 3, or the device has sent none
InitMeta ==
  /\ \E body \in AckBodies, flag \in {0, 128}, status \in {0, 3}, queued \in BOOLEAN :
       /\ conn = [isAuthenticated |-> TRUE,
                  notificationQueue |->
                    IF queued
                    THEN <<buildE87Frame(flag, 27, [i \in DOMAIN body |->
                                                     IF i = 1 THEN status ELSE body[i]])>>
                    ELSE <<>>]
       /\ env = [cancelRequested |-> FALSE, rejects |-> 0, reqs |-> {"1b"}, late |-> 0,
                 devCount |-> [c \in DevClasses |->
                                 IF c = "ack1b" /\ queued THEN 1 ELSE 0]]
  /\ \E n \in PayloadLens, name \in TempNames, r1 \in RandBytes, r2 \in RandBytes :
       /\ up = [pc |-> "p8_wait1b", caller |-> "writeFileE87", payloadLen |-> n,
                uploadMode |-> "image", listener |-> TRUE,
                fileCompleteAutoRespond |-> FALSE, fileCompleteHandled |-> FALSE,
                seqCounter |-> 6, chunkSize |-> E87_DATA_CHUNK_SIZE, seq |-> 0,
                sentChunks |-> 0, totalBytesSent |-> 0,
                currentAck |-> NullFrame, frame |-> NullFrame,
                deviceResponse |-> <<>>, deviceChallenge |-> <<>>,
                pendingOk |-> TRUE, error |-> ""]
       /\ obs = [wire |-> DataWrite(buildE87Frame(192, 27,
                            metaBody(5, n, crc16xmodem(Payload(n)), r1, r2, name)),
                          "session"),
                 rank |-> 6, acks |-> {33, 39}, lastSeq |-> 5, prevSeq |-> 4,
                 dataFrames |-> 0, winFrames |-> 0, chunkBytes |-> 0, carried |-> 0,
                 ctl |-> <<158, 244, 11, 220, 1, 0, 12>>,
                 winAcks |-> 0, lastProgress |-> -1, windows |-> <<>>,
                 closeStatus |-> -1, pathReplies |-> 0, closeReplies |-> 0]
  /\ sc = NoSc
  /\ bus = NoBus

NextMeta == P8Wait1b

SpecMeta == InitMeta /\ [][NextMeta]_vars

\* ------------------------------------------------------------------------
\* The two frame codecs on their own: build, then parse; or parse raw bytes
\* ------------------------------------------------------------------------
NullQix == [valid |-> FALSE, cmd |-> 0, flag |-> 0, payload |-> <<>>]

\* chk = (chk + b) & 0xff over the bytes lo..hi, from left to right; the range
\* is split in halves and the left half is computed to a value first
RECURSIVE ChkFrom(_, _, _, _)
ChkFrom(chk, data, lo, hi) ==
  IF lo > hi THEN chk
  ELSE IF lo = hi THEN (chk + data[lo]) % 256
  ELSE LET mid == (lo + hi) \div 2
       IN  CHOOSE r \in {ChkFrom(left, data, mid + 1, hi) :
                           left \in {ChkFrom(chk, data, lo, mid)}} : TRUE

\* 9E | chk | flag | cmd | lenLo | lenHi | payload, chk over everything after it
buildQixFrameBigEndian(cmd, payload, flag) ==
  CHOOSE frame \in
    {<<158, ChkFrom(0, inner, 1, Len(inner))>> \o inner :
       inner \in {<<flag % 256, cmd % 256,
                    (Len(payload) \div 256) % 256, Len(payload) % 256>> \o payload}} : TRUE

buildQixFrame(cmd, payload, flag) ==
  CHOOSE frame \in
    {<<158, ChkFrom(0, inner, 1, Len(inner))>> \o inner :
       inner \in {<<flag % 256, cmd % 256,
                    Len(payload) % 256, (Len(payload) \div 256) % 256>> \o payload}} : TRUE

\* byte 1 (the checksum) is not read; bytes after the payload are ignored
parseQixFrame(raw) ==
  IF Len(raw) < 6 \/ raw[1] # 158 THEN NullQix
  ELSE IF Len(raw) < 6 + (raw[5] + raw[6] * 256) THEN NullQix
  ELSE [valid |-> TRUE, cmd |-> raw[4], flag |-> raw[3],
        payload |-> Slice(raw, 6, 6 + (raw[5] + raw[6] * 256))]

\* the body or payload of n bytes given to a builder
CodecBody(n) == [i \in 1 .. n |-> ((i * 7) + n) % 256]

\* byte strings that did not come from a builder: a built frame with one byte
\* replaced, cut short, or with a byte appended
Mutations(base) ==
  {base}
    \cup {[base EXCEPT ![i] = v] : i \in 1 .. Len(base), v \in {0, 1, 2, 158, 239, 254}}
    \cup {SubSeq(base, 1, k) : k \in 0 .. Len(base) - 1}
    \cup {base \o <<v>> : v \in {0, 1, 2, 158, 239, 254}}
RawFe == UNION {Mutations(buildE87Frame(192, 6, CodecBody(n))) : n \in 0 .. MaxRawBody}
RawQix == UNION {Mutations(buildQixFrame(1, CodecBody(n), 128)) : n \in 0 .. MaxRawBody}

\* the codec's job: arguments for a builder (flag, command, body of a length
\* around the byte boundaries of the length field), or raw bytes for a parser
CodecInputs(proto, raws) ==
  {[proto |-> proto, step |-> "args", src |-> "built", flag |-> a[1], cmd |-> a[2],
    body |-> CodecBody(a[3]), bytes |-> <<>>, out |-> [valid |-> FALSE]] :
     a \in {0, 1, 128, 255} \X {0, 1, 128, 255} \X {0, 1, 2, 255, 256, 257, MaxBodyLen}}
  \cup
  {[proto |-> proto, step |-> "bytes", src |-> "raw", flag |-> 0, cmd |-> 0,
    body |-> <<>>, bytes |-> raw, out |-> [valid |-> FALSE]] : raw \in raws}

\* no connection, no upload: only the codec's argument and result change
Quiet ==
  /\ conn = [isAuthenticated |-> FALSE, notificationQueue |-> <<>>]
  /\ up = [pc |-> "idle", caller |-> "none", payloadLen |-> 0, uploadMode |-> "image",
           listener |-> FALSE,
           fileCompleteAutoRespond |-> FALSE, fileCompleteHandled |-> FALSE,
           seqCounter |-> 0, chunkSize |-> E87_DATA_CHUNK_SIZE, seq |-> 0,
           sentChunks |-> 0, totalBytesSent |-> 0,
           currentAck |-> NullFrame, frame |-> NullFrame,
           deviceResponse |-> <<>>, deviceChallenge |-> <<>>,
           pendingOk |-> TRUE, error |-> ""]
  /\ sc = NoSc
  /\ env = [cancelRequested |-> FALSE, rejects |-> 0, reqs |-> {}, late |-> 0,
            devCount |-> [c \in DevClasses |-> 0]]
  /\ obs = [wire |-> NoWrite, rank |-> 0, acks |-> {}, lastSeq |-> -1, prevSeq |-> -1,
            dataFrames |-> 0, winFrames |-> 0, chunkBytes |-> 0, carried |-> 0,
            ctl |-> <<>>, winAcks |-> 0, lastProgress |-> -1, windows |-> <<>>,
            closeStatus |-> -1, pathReplies |-> 0, closeReplies |-> 0]

InitCodec ==
  /\ Quiet
  /\ bus \in CodecInputs("fe", RawFe) \cup CodecInputs("qix", RawQix)

BuildFe ==
  /\ bus.proto = "fe" /\ bus.step = "args"
  /\ bus' = [bus EXCEPT !.step = "bytes",
                        !.bytes = buildE87Frame(bus.flag, bus.cmd, bus.body)]
  /\ UNCHANGED <<conn, up, sc, env, obs>>

ParseFe ==
  /\ bus.proto = "fe" /\ bus.step = "bytes"
  /\ bus' = [bus EXCEPT !.step = "parsed", !.out = parseE87Frame(bus.bytes)]
  /\ UNCHANGED <<conn, up, sc, env, obs>>

BuildQix ==
  /\ bus.proto = "qix" /\ bus.step = "args"
  /\ bus' = [bus EXCEPT !.step = "bytes",
                        !.bytes = buildQixFrame(bus.cmd, bus.body, bus.flag)]
  /\ UNCHANGED <<conn, up, sc, env, obs>>

ParseQix ==
  /\ bus.proto = "qix" /\ bus.step = "bytes"
  /\ bus' = [bus EXCEPT !.step = "parsed", !.out = parseQixFrame(bus.bytes)]
  /\ UNCHANGED <<conn, up, sc, env, obs>>

NextCodec == BuildFe \/ ParseFe \/ BuildQix \/ ParseQix

SpecCodec == InitCodec /\ [][NextCodec]_vars

\* ------------------------------------------------------------------------
\* The two sequence counters of a connection on their own
\* ------------------------------------------------------------------------
\* out = rcspSeq & 0xff; rcspSeq = (rcspSeq + 1) & 0xff; 0 is skipped
nextRcspSeqWithZero(c) ==
  [out |-> c.rcspSeq % 256, rcspSeq |-> (c.rcspSeq + 1) % 256]

nextRcspSeq(c) ==
  [out |-> c.rcspSeq % 256,
   rcspSeq |-> IF (c.rcspSeq + 1) % 256 = 0 THEN 1 ELSE (c.rcspSeq + 1) % 256]

\* out = qixSeq & 0x0f; qixSeq = (qixSeq + 1) & 0x0f
nextQixSeq(c) ==
  [out |-> c.qixSeq % 16, qixSeq |-> (c.qixSeq + 1) % 16]

\* a new connection: rcspSeq 1, qixSeq 0; last is the operation that ran last
\* and out the value it returned
InitCounters ==
  /\ Quiet
  /\ bus = [rcspSeq |-> 1, qixSeq |-> 0, last |-> "create", out |-> -1]

\* sendRcspCommandAndWait takes its sequence number
RcspRequest ==
  /\ \E r \in {nextRcspSeq(bus)} :
       bus' = [bus EXCEPT !.rcspSeq = r.rcspSeq, !.out = r.out, !.last = "rcsp"]
  /\ UNCHANGED <<conn, up, sc, env, obs>>

\* sendQixCommandAndWait takes its sequence number
QixRequest ==
  /\ \E r \in {nextQixSeq(bus)} :
       bus' = [bus EXCEPT !.qixSeq = r.qixSeq, !.out = r.out, !.last = "qix"]
  /\ UNCHANGED <<conn, up, sc, env, obs>>

\* disconnectE87 on this connection: the queue is empty and isAuthenticated
\* is false already, the counters go back to their first values
DisconnectSeq ==
  /\ bus' = [bus EXCEPT !.rcspSeq = 1, !.qixSeq = 0, !.out = -1, !.last = "disconnect"]
  /\ UNCHANGED <<conn, up, sc, env, obs>>

NextCounters == RcspRequest \/ QixRequest \/ DisconnectSeq

SpecCounters == InitCounters /\ [][NextCounters]_vars

\* ------------------------------------------------------------------------
\* Writes on the data endpoint, from their start to their resolution: the
\* session awaits each write it starts; the notification callbacks start
\* theirs and return
\* ------------------------------------------------------------------------
\* what the device sends while the session is in its data phase
WriteMsgs ==
  {buildE87Frame(192, 14, <<9>>), buildE87Frame(192, 32, <<6>>),
   buildE87Frame(128, 29, WindowAckBody(1, 0, 1, <<0, 0, 0, 0>>))}

\* the k-th frame the session writes in this phase
SessionFrame(k) == buildE87Frame(128, 1, dataBody(k, k % 8, <<PayloadByte(k + 1)>>))

\* the writes started by the listeners of one notification event, in the order
\* of their start: autoAckDeviceCommand's, then the auto-responder's
CallbackWrites(u, raw, now) ==
  [i \in DOMAIN onNotificationWrites(raw) |->
     DataWrite(onNotificationWrites(raw)[i], "autoAck")]
  \o (IF autoResponderFires(u, raw)
      THEN <<DataWrite(buildE87Frame(0, 32, buildFilePathResponse(
                         ByteOr(parseE87Frame(raw).body, 0, 0), u.uploadMode, now)),
                       "autoResponder")>>
      ELSE <<>>)

\* an upload in its data phase, the auto-responder armed, no write in flight
InitWrites ==
  /\ conn = [isAuthenticated |-> TRUE, notificationQueue |-> <<>>]
  /\ up = [pc |-> "chunk", caller |-> "writeFileE87", payloadLen |-> LongLen,
           uploadMode |-> "image", listener |-> TRUE,
           fileCompleteAutoRespond |-> TRUE, fileCompleteHandled |-> FALSE,
           seqCounter |-> 6, chunkSize |-> E87_DATA_CHUNK_SIZE, seq |-> 0,
           sentChunks |-> 0, totalBytesSent |-> 0,
           currentAck |-> NullFrame, frame |-> NullFrame,
           deviceResponse |-> <<>>, deviceChallenge |-> <<>>,
           pendingOk |-> TRUE, error |-> ""]
  /\ sc = NoSc
  /\ env = [cancelRequested |-> FALSE, rejects |-> 0, reqs |-> {}, late |-> 0,
            devCount |-> [c \in DevClasses |-> 0]]
  /\ obs = [wire |-> NoWrite, rank |-> 0, acks |-> {}, lastSeq |-> -1, prevSeq |-> -1,
            dataFrames |-> 0, winFrames |-> 0, chunkBytes |-> 0, carried |-> 0,
            ctl |-> <<>>, winAcks |-> 0, lastProgress |-> -1, windows |-> <<>>,
            closeStatus |-> -1, pathReplies |-> 0, closeReplies |-> 0]
  /\ bus = [inflight |-> <<>>, session |-> "ready", sent |-> 0, arrivals |-> 0]

\* writeChunkTo called by the session: the write is started and the session
\* awaits it
SessionWriteStart ==
  /\ bus.session = "ready"
  /\ bus.sent < MaxSessionWrites
  /\ bus' = [bus EXCEPT !.inflight = Append(@, DataWrite(SessionFrame(bus.sent), "session")),
                        !.session = "awaiting",
                        !.sent = @ + 1]
  /\ UNCHANGED <<conn, up, sc, env, obs>>

\* the transport resolves (or rejects) one of the writes in flight; the session
\* goes on when the write was its own
WriteSettles ==
  /\ \E i \in DOMAIN bus.inflight :
       bus' = [bus EXCEPT !.inflight = Splice(@, i),
                          !.session = IF bus.inflight[i].by = "session" THEN "ready" ELSE @]
  /\ UNCHANGED <<conn, up, sc, env, obs>>

\* one 'characteristicvaluechanged' event: onNotification, then autoResponder;
\* neither looks at the writes in flight
NotificationArrives ==
  /\ bus.arrivals < MaxWriteArrivals
  /\ \E raw \in WriteMsgs, now \in Clock :
       /\ conn' = [conn EXCEPT !.notificationQueue = onNotification(@, raw)]
       /\ up' = IF autoResponderFires(up, raw)
                THEN [up EXCEPT !.fileCompleteHandled = TRUE] ELSE up
       /\ bus' = [bus EXCEPT !.inflight = @ \o CallbackWrites(up, raw, now),
                             !.arrivals = @ + 1]
  /\ UNCHANGED <<sc, env, obs>>

NextWrites == SessionWriteStart \/ WriteSettles \/ NotificationArrives

SpecWrites == InitWrites /\ [][NextWrites]_vars

\* ------------------------------------------------------------------------
\* One inbound payload handled by the connection's notification callback
\* ------------------------------------------------------------------------
\* a payload has arrived on a connection whose queue is empty or holds one
\* entry: FE frames of every flag class and command class, with and without a
\* body; FE frames damaged in the magic, the length or the terminator; 9E frames
InitNotify ==
  /\ Quiet
  /\ \E raw \in UNION {Mutations(buildE87Frame(a[1], a[2], a[3])) :
                         a \in {0, 1, 64, 128, 191, 192, 193, 224, 255}
                               \X {6, 14, 27, 28, 29, 32, 33}
                               \X {<<>>, <<7>>}}
                  \cup {ReadyNotif, InfoNotif, <<>>},
        held \in {<<>>, <<ReadyNotif>>} :
       bus = [pending |-> raw, held |-> held, step |-> "arrived", writes |-> <<>>,
              queue |-> held]

\* onNotification runs on the payload
NotifyHandle ==
  /\ bus.step = "arrived"
  /\ bus' = [bus EXCEPT !.step = "handled",
                        !.queue = onNotification(@, bus.pending),
                        !.writes = onNotificationWrites(bus.pending)]
  /\ UNCHANGED <<conn, up, sc, env, obs>>

NextNotify == NotifyHandle

SpecNotify == InitNotify /\ [][NextNotify]_vars

\* ------------------------------------------------------------------------
\* A later upload on the same connection: the queue is not cleared
\* ------------------------------------------------------------------------
\* frames an earlier upload that failed or timed out left in the queue: the ACKs
\* of 0x21, 0x27 and 0x1B, a window ACK and SESSION_CLOSE.  They carry 0xEE as
\* sequence byte, which no frame the device sends during the later upload does;
\* no wait reads that byte
StaleFrames ==
  <<buildE87Frame(0, 33, <<0, 238>>), buildE87Frame(0, 39, <<0, 238, 0, 1>>),
    buildE87Frame(0, 27, <<0, 238, 0, 2>>),
    buildE87Frame(128, 29, WindowAckBody(238, 0, 2, <<0, 0, 0, 0>>)),
    buildE87Frame(192, 28, <<238, 0>>)>>

\* writeFileE87 is called again on the connection, authenticated by the earlier
\* call, and has reached phase 6; its setup has left the queue as it found it
InitStale ==
  /\ \E stale \in {<<>>, StaleFrames} \cup {<<StaleFrames[k]>> : k \in DOMAIN StaleFrames} :
       /\ conn = [isAuthenticated |-> TRUE, notificationQueue |-> stale]
       /\ bus = [stale |-> Len(stale)]
  /\ \E n \in PayloadLens :
       up = [pc |-> "p6_send21", caller |-> "writeFileE87", payloadLen |-> n,
             uploadMode |-> "image", listener |-> TRUE,
             fileCompleteAutoRespond |-> FALSE, fileCompleteHandled |-> FALSE,
             seqCounter |-> 3, chunkSize |-> E87_DATA_CHUNK_SIZE, seq |-> 0,
             sentChunks |-> 0, totalBytesSent |-> 0,
             currentAck |-> NullFrame, frame |-> NullFrame,
             deviceResponse |-> <<>>, deviceChallenge |-> <<>>,
             pendingOk |-> TRUE, error |-> ""]
  /\ env = [cancelRequested |-> FALSE, rejects |-> 0, reqs |-> {}, late |-> 0,
            devCount |-> [c \in DevClasses |-> 0]]
  /\ obs = [wire |-> DataWrite(buildE87Frame(192, 7, <<2, 255, 255, 255, 255, 255>>), "session"),
            rank |-> 4, acks |-> {}, lastSeq |-> 2, prevSeq |-> 1,
            dataFrames |-> 0, winFrames |-> 0, chunkBytes |-> 0, carried |-> 0,
            ctl |-> <<158, 244, 11, 220, 1, 0, 12>>,
            winAcks |-> 0, lastProgress |-> -1, windows |-> <<>>,
            closeStatus |-> -1, pathReplies |-> 0, closeReplies |-> 0]
  /\ sc = NoSc

NextStale ==
  \/ DeviceNotify
  \/ P6Send21 \/ P6Wait21 \/ P7Send27 \/ P7Wait27 \/ P8Send1b \/ P8Wait1b
  \/ P9WaitFirstAck \/ LoopTop \/ SendChunk \/ SendChunksReturn
  \/ LoopWait \/ FcSend \/ FcSent \/ FcWaitClose \/ CloseSend

SpecStale == InitStale /\ [][NextStale]_vars

\* ------------------------------------------------------------------------
\* ensureE87Auth called by several operations of one connection
\* ------------------------------------------------------------------------
\* the operations that call ensureE87Auth while none of them has returned: an
\* upload and the queries of the connection
Callers == 1 .. MaxCallers

\* the positions of a call between its first write and its return
HandshakePcs == {"auth_wait1", "auth_wait2", "auth_wait3"}

\* no call has been made; bus holds each call's position and challenge, the
\* handshake messages the device has not answered yet with the call that wrote
\* them, for every queue entry the call whose message it answers, and whether a
\* call has taken an entry that answers another call's message
InitAuth ==
  /\ Quiet
  /\ bus = [pc |-> [c \in Callers |-> "idle"],
            deviceChallenge |-> [c \in Callers |-> <<>>],
            pending |-> <<>>, owner |-> <<>>, crossed |-> FALSE]

\* ensureE87Auth up to its first await: the test of conn.isAuthenticated and, on
\* an unauthenticated connection, writeChunk(randomAuthData)
ensureE87AuthCall(c) ==
  /\ bus.pc[c] = "idle"
  /\ bus' = IF conn.isAuthenticated
            THEN [bus EXCEPT !.pc[c] = "returned"]
            ELSE [bus EXCEPT !.pc[c] = "auth_wait1",
                             !.pending = Append(@, [by |-> c, bytes |-> RandomAuthData])]
  /\ UNCHANGED <<conn, up, sc, env, obs>>

\* a waitRaw of ensureE87Auth returns the oldest matching entry, or its deadline
\* passes with none queued; the code up to the next await runs: the next write,
\* or conn.isAuthenticated = true
ensureE87AuthResume(c) ==
  /\ bus.pc[c] \in HandshakePcs
  /\ \E q \in {conn.notificationQueue} :
     \E i \in {FirstMatch(q, bus.pc[c])} :
         IF i = 0
         THEN /\ bus' = [bus EXCEPT !.pc[c] = "failed"]
              /\ UNCHANGED conn
         ELSE /\ conn' = [conn EXCEPT
                            !.notificationQueue = Splice(q, i),
                            !.isAuthenticated = IF bus.pc[c] = "auth_wait3" THEN TRUE ELSE @]
              /\ bus' = [bus EXCEPT
                           !.owner = Splice(@, i),
                           !.crossed = @ \/ bus.owner[i] # c,
                           !.deviceChallenge[c] = IF bus.pc[c] = "auth_wait2" THEN q[i] ELSE @,
                           !.pc[c] = CASE bus.pc[c] = "auth_wait1" -> "auth_wait2"
                                       [] bus.pc[c] = "auth_wait2" -> "auth_wait3"
                                       [] OTHER -> "returned",
                           !.pending =
                             CASE bus.pc[c] = "auth_wait1" ->
                                    Append(@, [by |-> c, bytes |-> <<2, 112, 97, 115, 115>>])
                               [] bus.pc[c] = "auth_wait2" ->
                                    Append(@, [by |-> c, bytes |-> getEncryptedAuthData(q[i])])
                               [] OTHER -> @]
  /\ UNCHANGED <<up, sc, env, obs>>

\* the device answers the oldest handshake message it has not answered yet:
\* [0x01, enc16] to [0x00, rand16], its challenge to [0x02, 'pass'], the success
\* token to the encrypted challenge; the notification is queued
DeviceHandshakeReply ==
  /\ bus.pending # <<>>
  /\ \E m \in {bus.pending[1]} :
       /\ conn' = [conn EXCEPT !.notificationQueue =
                     onNotification(@, CASE m.bytes[1] = 0 -> AuthResp
                                         [] m.bytes[1] = 2 -> AuthChallenge
                                         [] OTHER -> PassToken)]
       /\ bus' = [bus EXCEPT !.pending = Tail(@), !.owner = Append(@, m.by)]
  /\ UNCHANGED <<up, sc, env, obs>>

NextAuth ==
  \/ \E c \in Callers : ensureE87AuthCall(c)
  \/ \E c \in Callers : ensureE87AuthResume(c)
  \/ DeviceHandshakeReply

SpecAuth == InitAuth /\ [][NextAuth]_vars

\* ------------------------------------------------------------------------
\* Properties of the upload (specification Spec)
\* ------------------------------------------------------------------------
InitialAckTimeout == "Device did not send the initial window ACK within 10 s"

\* C1: no 0x01 data frame is written before a window ACK was dequeued in the
\* run, and a run that ends on the initial window-ACK timeout has written no
\* data frame
C1_NoDataBeforeWindowAck ==
  /\ obs.dataFrames > 0 => obs.winAcks > 0
  /\ (up.pc = "failed" /\ up.error = InitialAckTimeout) => obs.dataFrames = 0

\* a data frame is on the wire after exactly one window ACK was dequeued
C1_Witness == IsDataFrame(obs.wire) /\ obs.winAcks = 1 /\ obs.dataFrames = 1

\* C2: writeFileE87 resolves only when SESSION_CLOSE carried status 0x00
C2_CloseStatusDecides == up.pc = "done" => obs.closeStatus = 0

\* C3: of two consecutive frames handed to the data endpoint that carry the
\* session sequence byte, the later carries the earlier one's byte plus 1 mod 256
C3_SeqConsecutive == obs.prevSeq # -1 => obs.lastSeq = (obs.prevSeq + 1) % 256

\* C4: cmd 0x06 carries the literal body 02 00 01, the commands 0x03, 0x07, 0x21,
\* 0x27, 0x1B carry the sequence bytes 1..5 and the first data frame carries 6
C4_FixedProgression ==
  LET f == parseE87Frame(obs.wire.bytes)
  IN  (obs.wire.by = "session" /\ f.valid) =>
        /\ (f.flag = 192 /\ f.cmd = 6) => f.body = <<2, 0, 1>>
        /\ (f.flag = 192 /\ f.cmd = 3) => f.body[1] = 1
        /\ (f.flag = 192 /\ f.cmd = 7) => f.body[1] = 2
        /\ (f.flag = 192 /\ f.cmd = 33) => f.body[1] = 3
        /\ (f.flag = 192 /\ f.cmd = 39) => f.body[1] = 4
        /\ (f.flag = 192 /\ f.cmd = 27) => f.body[1] = 5
        /\ (f.flag = 128 /\ f.cmd = 1 /\ obs.dataFrames = 1) => f.body[1] = 6

\* the offset of a window ACK read as an unsigned number, when it is below 2^24
SmallOffset(off4) == (off4[2] * 65536) + (off4[3] * 256) + off4[4]

\* C5: the data frames of a window with offset o and size w carry, in order and
\* without gap, the bytes payload[o .. min(o+w, len)): every chunk has 1 to
\* chunkSize bytes, every chunk before the last has chunkSize bytes, and nothing
\* outside the payload is sent
C5_WindowBytes ==
  (IsDataFrame(obs.wire) /\ obs.winFrames > 0) =>
    LET f     == parseE87Frame(obs.wire.bytes)
        chunk == SubSeq(f.body, 6, Len(f.body))
        n     == Len(chunk)
        o     == SmallOffset(sc.off4)
        start == (o + obs.carried) - n
    IN  /\ sc.off4[1] = 0
        /\ n >= 1 /\ n <= up.chunkSize
        /\ start + n <= Min(o + sc.winSize, up.payloadLen)
        /\ chunk = [i \in 1 .. n |-> PayloadByte(start + i)]
        /\ obs.carried - n = (obs.winFrames - 1) * up.chunkSize

CeilDiv(a, b) == (a + (b - 1)) \div b

SlotByte(w) == parseE87Frame(w.bytes).body[3]

\* C6 as stated, for a window that starts inside a non-empty payload: its slot
\* bytes run 0, 1, ..., k-1 with k = ceil(win_size / chunkSize)
C6_SlotRun ==
  (sc.off4[1] = 0 /\ SmallOffset(sc.off4) < up.payloadLen /\ sc.winSize > 0) =>
    /\ (IsDataFrame(obs.wire) /\ obs.winFrames > 0) =>
         SlotByte(obs.wire) = obs.winFrames - 1
    /\ (up.pc = "loop_wait" /\ Len(obs.windows) > 0) =>
         obs.winFrames = CeilDiv(sc.winSize, up.chunkSize)

\* C6: the i-th data frame of a window (i from 0) carries slot i mod 8, so the
\* slot restarts at 0 with each window and lies in 0..7, and a window has at
\* most ceil(win_size / chunkSize) data frames
C6_SlotRunMod8 ==
  (IsDataFrame(obs.wire) /\ obs.winFrames > 0) =>
    /\ SlotByte(obs.wire) = (obs.winFrames - 1) % 8
    /\ SlotByte(obs.wire) \in 0 .. 7
    /\ obs.winFrames <= CeilDiv(sc.winSize, up.chunkSize)

\* the ninth data frame of a window carries slot 0
C6_Witness == IsDataFrame(obs.wire) /\ obs.winFrames = 9 /\ SlotByte(obs.wire) = 0

\* whether a window asks for offset i of the payload
InWindow(i, win) ==
  /\ win.off4[1] = 0
  /\ SmallOffset(win.off4) <= i
  /\ i < SmallOffset(win.off4) + win.w

\* the windows of the run ask for each offset of the payload exactly once
ExactCoverage ==
  \A i \in 0 .. (up.payloadLen - 1) :
    Cardinality({k \in DOMAIN obs.windows : InWindow(i, obs.windows[k])}) = 1

\* C7, for a non-empty payload: when the window ACKs of a finished run asked for
\* each offset of the payload exactly once, the chunk lengths of its data frames
\* sum to len(p) and the last totalBytesSent given to onProgress is len(p)
C7_CoverageTotals ==
  (up.pc = "done" /\ up.payloadLen > 0 /\ ExactCoverage) =>
    /\ obs.chunkBytes = up.payloadLen
    /\ obs.lastProgress = up.payloadLen

\* ------------------------------------------------------------------------
\* Properties of the notification bus (specification SpecBus)
\* ------------------------------------------------------------------------
IsDeviceCommand(f) == f.valid /\ f.flag = 192 /\ f.cmd \notin {32, 28, 29}

\* C8: for an inbound FE frame with flag 0xC0 and cmd not 0x20, 0x1C or 0x1D the
\* callback issues exactly one write, FE(flag 0x00, same cmd, [0x00, device_seq])
\* with device_seq = body[0] (0 when the body is empty), and no such frame is
\* ever in the notification queue
C8_AutoAck ==
  LET f == parseE87Frame(bus.lastRaw)
      q == conn.notificationQueue
  IN  /\ (bus.step = "arrive" /\ IsDeviceCommand(f)) =>
           bus.lastWrites =
             <<<<254, 220, 186, 0, f.cmd, 0, 2, 0,
                 IF Len(f.body) > 0 THEN f.body[1] ELSE 0, 239>>>>
      /\ \A i \in DOMAIN q : ~IsDeviceCommand(parseE87Frame(q[i]))

\* a device command with a body has just arrived and was answered
C8_Witness ==
  LET f == parseE87Frame(bus.lastRaw)
  IN  /\ bus.step = "arrive" /\ IsDeviceCommand(f) /\ Len(f.body) > 0
      /\ Len(bus.lastWrites) = 1
      /\ conn.notificationQueue # <<>>

\* the arrival number a queued entry was built with
ArrivalNo(raw) == IF raw[1] = 158 THEN raw[3] ELSE raw[8]

\* C9: the queue never holds more than 200 entries, its entries are in arrival
\* order, and an arrival at a full queue evicts the oldest entry and nothing else
C9_QueueCapFifo ==
  [][LET q  == conn.notificationQueue
         qn == conn'.notificationQueue
     IN  /\ Len(qn) <= 200
         /\ \A i \in 1 .. (Len(qn) - 1) : ArrivalNo(qn[i]) < ArrivalNo(qn[i + 1])
         /\ bus'.step = "arrive" =>
              IF IsDeviceCommand(parseE87Frame(bus'.lastRaw))
              THEN qn = q
              ELSE \/ Len(q) < 200 /\ qn = Append(q, bus'.lastRaw)
                   \/ Len(q) = 200 /\ qn = Append(Tail(q), bus'.lastRaw)]_vars

\* an arrival has evicted the oldest entry of a full queue
C9_Witness ==
  /\ Len(conn.notificationQueue) = 200
  /\ bus.waits = 0 /\ bus.step = "arrive"
  /\ ArrivalNo(conn.notificationQueue[1]) = 2
  /\ conn.notificationQueue[200] = bus.lastRaw

\* C10: a waiter that finds a match removes exactly the oldest entry its
\* predicate accepts and returns it, every other entry stays in place and in
\* order, no entry is returned to two waiters, and a waiter that times out or
\* finds nothing removes nothing
C10_WaiterTakesOldest ==
  [][LET q  == conn.notificationQueue
         qn == conn'.notificationQueue
         w  == bus'.who
         me == bus'.waiter[w]
     IN  /\ bus'.step = "take" =>
              \E i \in DOMAIN q :
                /\ WaitPred(me.at, q[i])
                /\ \A j \in 1 .. (i - 1) : ~WaitPred(me.at, q[j])
                /\ me.got = q[i]
                /\ Len(qn) = Len(q) - 1
                /\ \A j \in 1 .. (i - 1) : qn[j] = q[j]
                /\ \A j \in i .. Len(qn) : qn[j] = q[j + 1]
                /\ \A v \in (1 .. 2) \ {w} : bus.waiter[v].got # q[i]
         /\ bus'.step \in {"timeout", "scan"} => qn = q]_vars

\* two waiters with the same predicate have each been given a different entry,
\* and an entry that is no FE frame is still queued
C10_Witness ==
  /\ bus.waiter[1].state = "got" /\ bus.waiter[2].state = "got"
  /\ bus.waiter[1].at = "p1_wait06" /\ bus.waiter[2].at = "p1_wait06"
  /\ bus.waiter[1].got # bus.waiter[2].got
  /\ \E i \in DOMAIN conn.notificationQueue : conn.notificationQueue[i][1] = 158

\* ------------------------------------------------------------------------
\* Handshake (ensureE87Auth)
\* ------------------------------------------------------------------------
\* the data-endpoint write of this step, when the step is a write of the session
SessionWrote(bytes) ==
  /\ obs'.wire # obs.wire
  /\ obs'.wire.by = "session"
  /\ obs'.wire.bytes = bytes

\* C11: the host writes [0x02,'p','a','s','s'] only after it has dequeued a
\* 17-byte message starting 0x01, writes [0x01, encrypt(challenge)] only after it
\* has dequeued a 17-byte message starting 0x00 and encrypts exactly the 16
\* bytes after that 0x00, and sets isAuthenticated only in the step that
\* dequeues a message starting [0x02,'p','a','s','s']
C11_HandshakeOrder ==
  [][/\ SessionWrote(PassToken) =>
          Len(up.deviceResponse) = 17 /\ up.deviceResponse[1] = 1
     /\ (up.pc = "auth_enc" /\ obs'.wire # obs.wire /\ obs'.wire.by = "session") =>
          /\ Len(up.deviceChallenge) = 17 /\ up.deviceChallenge[1] = 0
          /\ obs'.wire.bytes = <<1>> \o E1Encrypt(SubSeq(up.deviceChallenge, 2, 17))
     /\ (conn'.isAuthenticated /\ ~conn.isAuthenticated) =>
          \E i \in DOMAIN conn.notificationQueue :
            /\ Len(conn.notificationQueue[i]) >= 5
            /\ SubSeq(conn.notificationQueue[i], 1, 5) = PassToken
            /\ Len(conn'.notificationQueue) = Len(conn.notificationQueue) - 1]_vars

\* the handshake has succeeded on the second challenge
C11_Witness ==
  /\ conn.isAuthenticated
  /\ obs.wire.by = "session"
  /\ obs.wire.bytes = <<1>> \o E1Encrypt(SubSeq(AuthChallengeB, 2, 17))

\* C12: on a connection, every FE-framed write on the data endpoint (a session
\* command, an auto-ack of the notification callback, a data frame) happens
\* after the six-message handshake has succeeded. The callback writes its
\* auto-ack from the moment the connection exists, so this fails.
C12_NoFeBeforeAuth ==
  \A f \in {parseE87Frame(obs.wire.bytes)} :
    (obs.wire.by # "none" /\ f.valid) => conn.isAuthenticated

\* bytes of one of the three handshake writes: [0x00, rand], [0x02, pass], [0x01, enc]
HandshakeBytes(bytes) == Len(bytes) > 0 /\ bytes[1] \in {0, 1, 2}

\* C13: while the connection is authenticated, a call of ensureE87Auth returns
\* at once: it writes nothing and leaves the notification queue as it was, no
\* handshake bytes are written by anyone, and only disconnectE87 (which also
\* empties the queue) resets the flag.
C13_AuthShortCircuit ==
  [][conn.isAuthenticated =>
       /\ (obs'.wire # obs.wire /\ obs'.wire.by = "session") =>
            ~HandshakeBytes(obs'.wire.bytes)
       /\ up.pc = "auth" =>
            /\ conn'.notificationQueue = conn.notificationQueue
            /\ obs' = obs
            /\ up'.pc = "p1_send06"
       /\ ~conn'.isAuthenticated =>
            up.pc = "idle" /\ conn'.notificationQueue = <<>>]_vars

\* a later call has returned (no write since the call started) on an
\* authenticated connection whose queue holds a stale step-2 message
C13_Witness ==
  /\ up.pc = "p1_send06"
  /\ up.caller = "writeFileE87"
  /\ conn.isAuthenticated
  /\ obs.wire = NoWrite
  /\ conn.notificationQueue = <<AuthResp>>

\* the success token of step 6 is in the notification queue
TokenQueued ==
  \E i \in DOMAIN conn.notificationQueue :
    /\ Len(conn.notificationQueue[i]) >= 5
    /\ SubSeq(conn.notificationQueue[i], 1, 5) = PassToken

\* the last write on the data endpoint is an FE frame written by the session
SessionFe(o) == \E f \in {parseE87Frame(o.wire.bytes)} : o.wire.by = "session" /\ f.valid

\* C14: when the wait of step 6 ends without the success token in the queue
\* (another reply came, or none), the call fails and the flag stays false; a
\* failed writeFileE87 writes nothing more, and while the flag is false the
\* session has written no FE frame (no cmd 0x06, no data frame).
C14_AuthFailureTerminal ==
  [][/\ (up.pc = "auth_wait3" /\ ~TokenQueued) =>
          up'.pc \in {"auth_wait3", "failed"} /\ ~conn'.isAuthenticated
     /\ (up.pc = "failed" /\ up.caller = "writeFileE87") =>
          /\ up'.pc = "failed" /\ obs'.wire = obs.wire
          /\ conn'.isAuthenticated = conn.isAuthenticated
     /\ ~conn'.isAuthenticated =>
          ~SessionFe(obs') /\ up'.seqCounter = 0 /\ obs'.dataFrames = 0]_vars

\* the upload has failed at step 6 after a reply that is not the success token
C14_Witness ==
  /\ up.pc = "failed"
  /\ up.caller = "writeFileE87"
  /\ up.error = "Timeout waiting for auth pass confirmation"
  /\ conn.notificationQueue = <<FailToken>>
  /\ ~conn.isAuthenticated

NoAckQueued(cmd) ==
  \A i \in DOMAIN conn.notificationQueue :
    \A f \in {parseE87Frame(conn.notificationQueue[i])} : ~(f.valid /\ f.cmd = cmd)

\* C16: when the wait for the ACK of 0x06, 0x03 or 0x07 ends with no such ACK
\* in the queue, the upload does not fail: it goes on to the next phase (phase
\* 2, 4 or 5, on the way to cmd 0x21) with no error, and the queue is untouched.
C16_BestEffortAckMissing ==
  [][/\ (up.pc = "p1_wait06" /\ NoAckQueued(6) /\ up'.pc # up.pc) =>
          up'.pc = "p2_time" /\ up'.error = "" /\ UNCHANGED conn
     /\ (up.pc = "p3_wait03" /\ NoAckQueued(3) /\ up'.pc # up.pc) =>
          up'.pc = "p4_send07" /\ up'.error = "" /\ UNCHANGED conn
     /\ (up.pc = "p4_wait07" /\ NoAckQueued(7) /\ up'.pc # up.pc) =>
          up'.pc = "p5_heartbeat" /\ up'.error = "" /\ UNCHANGED conn]_vars

\* the wait for the 0x07 ACK has returned although the device sent no such ACK
\* since the request was written, and the upload goes on with phase 5
C16_Witness ==
  /\ up.pc = "p5_heartbeat"
  /\ up.seqCounter = 3
  /\ "07" \notin env.reqs /\ "aux" \in env.reqs
  /\ env.devCount["ack07"] = 0

\* C17: no failure of a 9E interaction ends the upload: a step that writes on the
\* control endpoint, or that leaves the wait for the C7 info or the E6 ready
\* notification, never takes the upload to failure. The control writes of
\* phases 2 and 5 are awaited outside any try block, so this fails.
C17_NineENeverAborts ==
  [][(\/ obs'.ctl # obs.ctl
      \/ up.pc \in {"p1_ctl", "p2_time", "p2_settings", "p2_heartbeat", "p3_ctl1", "p3_ctl2",
                    "p4_ctl1", "p4_ctl2", "p5_heartbeat", "p5_info", "p5_waitC7",
                    "p5_prepare", "p5_waitE6"})
       => up'.pc # "failed"]_vars

\* the errors of the three session-critical waits after their deadline
CriticalTimeouts ==
  {"Timeout waiting for ack cmd 0x21", "Timeout waiting for ack cmd 0x27",
   "Timeout waiting for ack cmd 0x1b"}

\* C18: when the wait for the ACK of 0x21, 0x27 or 0x1B ends with no such ACK in
\* the queue, the upload fails with that timeout; once it has failed so, the
\* session writes nothing more on either endpoint and no data frame was written.
C18_CriticalAckMissing ==
  [][/\ (up.pc = "p6_wait21" /\ NoAckQueued(33) /\ up'.pc # up.pc) =>
          up'.pc = "failed" /\ up'.error = "Timeout waiting for ack cmd 0x21"
     /\ (up.pc = "p7_wait27" /\ NoAckQueued(39) /\ up'.pc # up.pc) =>
          up'.pc = "failed" /\ up'.error = "Timeout waiting for ack cmd 0x27"
     /\ (up.pc = "p8_wait1b" /\ NoAckQueued(27) /\ up'.pc # up.pc) =>
          up'.pc = "failed" /\ up'.error = "Timeout waiting for ack cmd 0x1b"
     /\ up.error \in CriticalTimeouts =>
          /\ up'.pc = "failed" /\ up'.error = up.error
          /\ obs'.wire = obs.wire /\ obs'.ctl = obs.ctl
     /\ up'.error \in CriticalTimeouts =>
          obs'.dataFrames = 0 /\ obs'.rank \in {4, 5, 6}]_vars

\* the upload has failed waiting for the ACK of 0x27; the last FE request the
\* session wrote is 0x27
C18_Witness ==
  /\ up.pc = "failed"
  /\ up.error = "Timeout waiting for ack cmd 0x27"
  /\ obs.rank = 5
  /\ obs.acks = {33}

\* ------------------------------------------------------------------------
\* Properties of the metadata ACK (specification SpecMeta)
\* ------------------------------------------------------------------------
\* the big-endian 16-bit value of bytes 2..3 (0-based) of a body of 4 or more bytes
BE16At2(body) == (body[3] * 256) + body[4]

\* C19: when the metadata ACK is dequeued, chunkSize becomes the big-endian value
\* v of bytes 2..3 of its body when 0 < v <= 4096, and 490 when v is 0, v exceeds
\* 4096 or the body has fewer than 4 bytes; chunkSize is then within 1..4096.
C19_ChunkSize ==
  [][(up.pc = "p8_wait1b" /\ up'.pc = "p9_waitFirstAck") =>
       /\ \E i \in DOMAIN conn.notificationQueue :
            \E f \in {parseE87Frame(conn.notificationQueue[i])} :
              /\ f.valid /\ f.cmd = 27
              /\ conn'.notificationQueue = Splice(conn.notificationQueue, i)
              /\ up'.chunkSize =
                   IF Len(f.body) < 4 THEN 490
                   ELSE IF BE16At2(f.body) > 0 /\ BE16At2(f.body) <= 4096
                        THEN BE16At2(f.body) ELSE 490
       /\ up'.chunkSize \in 1 .. 4096]_vars

\* the largest accepted value has been taken from an ACK
C19_Witness ==
  /\ up.pc = "p9_waitFirstAck"
  /\ up.chunkSize = MaxChunkSize
  /\ conn.notificationQueue = <<>>

\* ------------------------------------------------------------------------
\* Properties of the exit of writeFileE87 (specification Spec)
\* ------------------------------------------------------------------------
\* C20: once writeFileE87 has returned or thrown, its auto-responder listener is
\* detached, and a FILE_COMPLETE that arrives then is only queued: nothing is
\* written on the data endpoint and fileCompleteHandled does not change.
C20_DisarmedOnExit ==
  [][(up.pc \in {"done", "failed"} /\ up.caller = "writeFileE87") =>
       /\ ~up.listener
       /\ obs' = obs
       /\ up' = up]_vars

\* a cancelled upload whose flags would still let the auto-responder answer, and
\* a FILE_COMPLETE that arrived after the exit and sits in the queue
C20_Witness ==
  /\ up.pc = "failed"
  /\ up.error = "Write cancelled."
  /\ up.fileCompleteAutoRespond /\ ~up.fileCompleteHandled
  /\ env.late = 1
  /\ Len(conn.notificationQueue) > 0
  /\ conn.notificationQueue[Len(conn.notificationQueue)] = buildE87Frame(192, 32, <<6>>)

\* ------------------------------------------------------------------------
\* Properties of cancellation (specification Spec)
\* ------------------------------------------------------------------------
\* C21: an upload whose cancel flag was set before it finished, for instance
\* while it was suspended in a wait, never ends as Complete. The waits do not
\* read the flag, and the completion path does not either, so this fails.
C21_CancelNeverCompletes == ~(up.pc = "done" /\ env.cancelRequested)

\* C22: once the cancel flag is set, no further 0x01 data frame is written, and
\* the upload ends with the error 'Write cancelled.'. The first half holds; the
\* second fails when the device closes the session before the flag is read again.
C22_CancelStopsData ==
  [][/\ env.cancelRequested => obs'.dataFrames = obs.dataFrames
     /\ (env'.cancelRequested /\ up'.pc \in {"done", "failed"}) =>
          up'.pc = "failed" /\ up'.error = "Write cancelled."]_vars

\* ------------------------------------------------------------------------
\* Properties of the frame codecs (specification SpecCodec)
\* ------------------------------------------------------------------------
FeRoundTrip == bus.proto = "fe" /\ bus.src = "built" /\ bus.step = "parsed"

\* C23: for a flag and a command in 0..255 and a body of 0 to 65535 bytes, parsing
\* the frame that buildE87Frame made of them gives a frame, and that frame has
\* the same flag, command and body, and a length field equal to the body's length
C23_FeRoundTrip ==
  FeRoundTrip =>
    /\ bus.out.valid
    /\ bus.out.flag = bus.flag
    /\ bus.out.cmd = bus.cmd
    /\ bus.out.body = bus.body
    /\ bus.out.length = Len(bus.body)

\* a body whose length needs both length bytes, with the greatest flag and
\* command, has made the round trip
C23_Witness ==
  FeRoundTrip /\ Len(bus.body) = 257 /\ bus.flag = 255 /\ bus.cmd = 255

FeParsed == bus.proto = "fe" /\ bus.step = "parsed"
FeLongEnough(data) == Len(data) >= 8
FeMagic(data) == data[1] = 254 /\ data[2] = 220 /\ data[3] = 186
FeTerminated(data) == data[Len(data)] = 239
FeDeclared(data) == data[6] * 256 + data[7]
FeBetween(data) == Len(data) - 8

\* C24: parseE87Frame gives null for an input shorter than 8 bytes, for one that
\* does not start with FE DC BA, for one that does not end with EF, and for one
\* whose big-endian length in bytes 5..6 is not the number of bytes between
\* offset 7 and the terminator; it gives a frame for every other input
C24_FeParseChecks ==
  FeParsed =>
    (bus.out.valid <=>
       /\ FeLongEnough(bus.bytes)
       /\ FeMagic(bus.bytes)
       /\ FeTerminated(bus.bytes)
       /\ FeDeclared(bus.bytes) = FeBetween(bus.bytes))

\* a byte string that no builder made has been parsed: it is long enough, has the
\* magic and the terminator, and only its declared length is wrong
C24_Witness ==
  /\ FeParsed /\ bus.src = "raw"
  /\ FeLongEnough(bus.bytes) /\ FeMagic(bus.bytes) /\ FeTerminated(bus.bytes)
  /\ FeDeclared(bus.bytes) # FeBetween(bus.bytes)
  /\ ~bus.out.valid

QixRoundTrip == bus.proto = "qix" /\ bus.src = "built" /\ bus.step = "parsed"

\* the sum of the bytes lo..hi
RECURSIVE SumFrom(_, _, _)
SumFrom(data, lo, hi) ==
  IF lo > hi THEN 0
  ELSE IF lo = hi THEN data[lo]
  ELSE SumFrom(data, lo, (lo + hi) \div 2) + SumFrom(data, ((lo + hi) \div 2) + 1, hi)

\* C25: for a payload of 0 to 65535 bytes, parsing the frame that buildQixFrame
\* made of a command, a payload and a flag gives the same command, flag and
\* payload; in the built frame byte 1 is the sum of bytes 2 to the end modulo
\* 256 and bytes 4..5 are the payload length, low byte first
C25_QixRoundTrip ==
  QixRoundTrip =>
    /\ bus.out.valid
    /\ bus.out.cmd = bus.cmd
    /\ bus.out.flag = bus.flag
    /\ bus.out.payload = bus.body
    /\ bus.bytes[2] = SumFrom(bus.bytes, 3, Len(bus.bytes)) % 256
    /\ bus.bytes[5] = Len(bus.body) % 256
    /\ bus.bytes[6] = Len(bus.body) \div 256

\* a payload whose length needs both length bytes has made the round trip, and
\* the sum of its frame's bytes does not fit in one byte
C25_Witness ==
  /\ QixRoundTrip /\ Len(bus.body) = 257 /\ bus.flag = 255 /\ bus.cmd = 255
  /\ SumFrom(bus.bytes, 3, Len(bus.bytes)) > 255

QixParsed == bus.proto = "qix" /\ bus.step = "parsed" /\ Len(bus.bytes) >= 6
QixChecksumOk(data) == data[2] = SumFrom(data, 3, Len(data)) % 256
QixDeclared(data) == data[5] + data[6] * 256
QixPresent(data) == Len(data) - 6

\* C26: parseQixFrame gives null for every input whose byte 1 is not the
\* checksum of the bytes after it, and for every input whose declared
\* little-endian payload length is not the number of payload bytes present
C26_QixRejects ==
  (QixParsed /\ (~QixChecksumOk(bus.bytes) \/ QixDeclared(bus.bytes) # QixPresent(bus.bytes)))
    => ~bus.out.valid

\* ------------------------------------------------------------------------
\* Properties of the sequence counters (specification SpecCounters)
\* ------------------------------------------------------------------------
\* C27: after any sequence of RCSP requests, Qix requests and disconnects
\* rcspSeq is in 1..255 and qixSeq in 0..15; nextRcspSeq returns 1, 2, ..., 255,
\* 1, ... and nextQixSeq 0, 1, ..., 15, 0, ..., each the value the counter had
\* before the call, and a counter starts again at its first value after a
\* disconnect
C27_SeqCounters ==
  /\ [](bus.rcspSeq \in 1 .. 255 /\ bus.qixSeq \in 0 .. 15)
  /\ [][/\ bus'.last = "rcsp" =>
             /\ bus'.out = bus.rcspSeq
             /\ bus'.rcspSeq = IF bus.rcspSeq = 255 THEN 1 ELSE bus.rcspSeq + 1
             /\ bus'.qixSeq = bus.qixSeq
        /\ bus'.last = "qix" =>
             /\ bus'.out = bus.qixSeq
             /\ bus'.qixSeq = IF bus.qixSeq = 15 THEN 0 ELSE bus.qixSeq + 1
             /\ bus'.rcspSeq = bus.rcspSeq
        /\ bus'.last = "disconnect" => bus'.rcspSeq = 1 /\ bus'.qixSeq = 0]_vars

\* nextRcspSeq has returned 255 and the counter is back at 1, while the Qix
\* counter stands at its greatest value
C27_Witness ==
  bus.last = "rcsp" /\ bus.out = 255 /\ bus.rcspSeq = 1 /\ bus.qixSeq = 15

\* ------------------------------------------------------------------------
\* Properties of the upload's inputs (specification Spec)
\* ------------------------------------------------------------------------
TooLarge == up.payloadLen > 2000000

\* C28: an upload whose payload is larger than 2,000,000 bytes is rejected before
\* phase 1: it ends in failure, and no byte is written for it on either endpoint
C28_TooLargeRejected ==
  /\ [](TooLarge => (up.pc = "failed" /\ up.error = "File too large"))
  /\ [][TooLarge' => (obs' = obs /\ conn' = conn /\ env' = env)]_vars

\* a payload one byte over the limit has been rejected on a connection that an
\* earlier operation had authenticated
C28_Witness ==
  /\ up.payloadLen = 2000001 /\ up.pc = "failed"
  /\ conn.isAuthenticated /\ obs.wire = NoWrite

\* C29: an upload of a zero-length payload ends in failure, and no 0x01 data
\* frame is written for it, whatever window ACKs the device sends
C29_EmptyPayloadRejected ==
  (up.caller = "writeFileE87" /\ up.payloadLen = 0) =>
    (obs.dataFrames = 0 /\ up.pc # "done")

\* ------------------------------------------------------------------------
\* Properties of the writes in flight (specification SpecWrites)
\* ------------------------------------------------------------------------
\* C30: at any time at most one write is outstanding on the data endpoint,
\* whoever started it: the session or a notification callback
C30_OneWriteOutstanding == Len(bus.inflight) <= 1

\* ------------------------------------------------------------------------
\* Properties of the notification callback (specification SpecNotify)
\* ------------------------------------------------------------------------
NotifyHandled == bus.step = "handled"
Decodes(data) ==
  /\ FeLongEnough(data) /\ FeMagic(data) /\ FeTerminated(data)
  /\ FeDeclared(data) = FeBetween(data)
SessionCmd(data) == data[5] \in {32, 28, 29}
KeptOut == bus.queue = bus.held
Enqueued == bus.queue = Append(bus.held, bus.pending)

\* C31 as stated: a payload is auto-acked and kept out of the queue only if it
\* decodes as an FE frame with flag exactly 0xC0 and a cmd other than 0x20, 0x1C
\* and 0x1D; every other payload is enqueued and triggers no write
C31_ExactFlag ==
  NotifyHandled =>
    IF Decodes(bus.pending) /\ bus.pending[4] = 192 /\ ~SessionCmd(bus.pending)
    THEN KeptOut /\ bus.writes # <<>>
    ELSE Enqueued /\ bus.writes = <<>>

\* C31, amended: a payload is auto-acked and kept out of the queue exactly when
\* it decodes as an FE frame whose flag has bits 7 and 6 both set (0xC0..0xFF)
\* and whose cmd is none of 0x20, 0x1C, 0x1D; the auto-ack is one frame, flag
\* 0x00, same cmd; every other payload is enqueued and triggers no write
C31_DeviceCommandAutoAck ==
  NotifyHandled =>
    IF Decodes(bus.pending) /\ bus.pending[4] >= 192 /\ ~SessionCmd(bus.pending)
    THEN /\ KeptOut
         /\ Len(bus.writes) = 1
         /\ bus.writes[1][4] = 0 /\ bus.writes[1][5] = bus.pending[5]
    ELSE Enqueued /\ bus.writes = <<>>

\* a frame with flag 0xE0 and an ordinary command has been acked and kept out
\* of a queue that held an entry
C31_Witness ==
  /\ NotifyHandled /\ Decodes(bus.pending)
  /\ bus.pending[4] = 224 /\ bus.pending[5] = 14
  /\ bus.held # <<>> /\ KeptOut /\ bus.writes # <<>>

\* ------------------------------------------------------------------------
\* Properties of the request/ACK phases (specifications SpecMeta and Spec)
\* ------------------------------------------------------------------------
\* C32: the session goes past the wait for the 0x1B ACK only by taking from the
\* queue a frame with cmd 0x1B and flag 0x00; a queued frame with that cmd and
\* another flag is never consumed as the ACK
C32_AckFlagZero ==
  [][(up.pc = "p8_wait1b" /\ up'.pc = "p9_waitFirstAck") =>
       \E i \in DOMAIN conn.notificationQueue :
         /\ conn.notificationQueue[i][4] = 0
         /\ conn.notificationQueue[i][5] = 27
         /\ conn'.notificationQueue = Splice(conn.notificationQueue, i)]_vars

\* C33: when the frame taken as the ACK of the 0x1B request carries a non-zero
\* status byte (body[0]), the upload fails at that step
C33_AckStatusTerminal ==
  [][(/\ up.pc = "p8_wait1b"
      /\ \E i \in DOMAIN conn.notificationQueue :
           /\ conn.notificationQueue[i][5] = 27
           /\ Len(conn.notificationQueue[i]) > 8
           /\ conn.notificationQueue[i][8] # 0
           /\ conn'.notificationQueue = Splice(conn.notificationQueue, i))
       => up'.pc = "failed"]_vars

\* ------------------------------------------------------------------------
\* Properties of the completion exchange (specification Spec)
\* ------------------------------------------------------------------------
\* C34: in an upload at most one cmd-0x20 path response (flag 0x00, cmd 0x20) is
\* written, by the auto-responder or by the data loop, however the
\* FILE_COMPLETE frames arrive
C34_OnePathResponse == obs.pathReplies <= 1

\* ------------------------------------------------------------------------
\* Termination (specification SpecLive)
\* ------------------------------------------------------------------------
\* C35: every run of writeFileE87 eventually returns or throws, when every write
\* resolves or rejects and the device sends finitely many frames
C35_UploadTerminates ==
  (up.caller = "writeFileE87") ~> (up.pc \in {"done", "failed"})

\* an upload has ended on a deadline of the data loop after the device had sent
\* every window ACK it sends in a run
C35_Witness ==
  /\ up.caller = "writeFileE87" /\ up.pc = "failed"
  /\ obs.winAcks = MaxWindows /\ obs.dataFrames > 0
  /\ up.error # "Write cancelled." /\ up.error # "write rejected"

\* C36: every 9E frame written on the control endpoint has byte 1 equal to the
\* sum of the bytes after it modulo 256, and a little-endian length field equal
\* to the number of payload bytes, whatever the date and time
C36_ControlFramesWellFormed ==
  obs.ctl # <<>> =>
    /\ Len(obs.ctl) >= 6
    /\ obs.ctl[1] = 158
    /\ QixChecksumOk(obs.ctl)
    /\ QixDeclared(obs.ctl) = QixPresent(obs.ctl)


\* C37: when the data loop takes up a window ACK with an 8-byte body b, the
\* window it sends has win_size = b[2]*256 + b[3] and next_offset = the unsigned
\* 32-bit big-endian value of b[4..7] (top byte b[4], low 24 bits b[5..7]), never
\* negative; and while a window whose
\* offset has its top bit set (>= 2^31, beyond every payload) is being sent, no
\* data frame is written
C37_WindowAckFields ==
  [][/\ (up.pc = "loop_top" /\ up'.pc = "chunk") =>
          /\ sc'.winSize = (up.currentAck.body[3] * 256) + up.currentAck.body[4]
          /\ sc'.offset >= 0
          /\ sc'.offset \div 16777216 = up.currentAck.body[5]
          /\ sc'.offset % 16777216 = (up.currentAck.body[6] * 65536)
                                      + (up.currentAck.body[7] * 256) + up.currentAck.body[8]
     /\ (up.pc = "chunk" /\ sc.off4[1] >= 128) => obs'.dataFrames = obs.dataFrames]_vars


C39_NoStaleConsumed ==
  Cardinality({i \in DOMAIN conn.notificationQueue :
                 \E k \in DOMAIN StaleFrames : conn.notificationQueue[i] = StaleFrames[k]})
    = bus.stale

\* C40: at no time have two calls of ensureE87Auth written [0x00, rand16] on a
\* connection that is not yet authenticated and are both still in the handshake,
\* and no call takes a device reply that answers another call's message
C40_HandshakeOnce ==
  /\ Cardinality({c \in Callers : bus.pc[c] \in HandshakePcs}) <= 1
  /\ ~bus.crossed

====
